---------------------------- MODULE Spec2Model ----------------------------
(***************************************************************************)
(* API-key gateway of the profile-matching service:                        *)
(*   middleware/apiKeyAuth.js  authenticateApiKey, rateLimitByApiKey,      *)
(*                             generateApiKey                              *)
(*   controllers/adminController.js  createApiKey, regenerateApiKey,       *)
(*                             updateApiKey, deleteApiKey                  *)
(*   models  ApiKey (credential store), RateLimit (usage ledger)           *)
(*                                                                         *)
(* Every await of the source is a step boundary: the database call and the *)
(* synchronous code that follows it up to the next await form one action.  *)
(* Dates are integers on a clock whose unit is half of the one-hour window.*)
(***************************************************************************)
EXTENDS Integers, Sequences, FiniteSets, TLC

\* ------------------------------------------------------------------ bounds
MaxTime == 3
MaxAuthTime == 2
MaxRequests == 3
MaxAuthRequests == 2
MaxAdminRequests == 1
MaxInFlight == 2
MaxAdminOps == 3

\* ------------------------------------------------------- program constants
\* 60 * 60 * 1000 ms, in clock units
Hour == 2
\* 24 * 60 * 60 * 1000 ms, in clock units
Day == 48
RetryAfter == 3600
DefaultRateLimit == 100

\* ------------------------------------------------------------ value domains
Reqs == 1..MaxInFlight
Admins == {"a1", "a2"}
Clients == {"acme_1", "beta_2"}
IPs == {"1.2.3.4", "9.9.9.9"}
Paths == {"/profiles"}
Routes == {"/profiles", "/health"}

\* JavaScript undefined for strings; null and undefined for dates
Undefined == "undefined"
NullDate == -1
UndefinedDate == -2

NoDoc == [_id |-> 0]
NoClient == [clientId |-> Undefined]
NoRes == [status |-> 0]

\* the message of an error thrown by the database driver
StoreErrorDetail == "MongoNetworkError: connection refused"
DuplicateKeyDetail == "E11000 duplicate key error"
NotFoundDetail == "DocumentNotFoundError"

\* store, ledger      the ApiKey and RateLimit collections
\* clock              the current time
\* req, adm           the requests on the /api/v1 and /api/admin connections
\* issued, nextId     keys generated and documents inserted so far
\* started, adminOps  requests received so far
\* inFlightCap, budget, ledgerReachable   the environment: connections in
\*                    use, requests to come, whether the ledger can fail
\* rejected           history: per client, the time of its last 429 when no
\*                    request of it was admitted since (NullDate otherwise)
VARIABLES store, ledger, clock, req, adm, issued, nextId,
          started, adminOps, inFlightCap, budget, ledgerReachable, rejected

vars == <<store, ledger, clock, req, adm, issued, nextId,
          started, adminOps, inFlightCap, budget, ledgerReachable, rejected>>

\* ------------------------------------------------------------ generateApiKey
\* crypto.randomBytes(32) rendered in hex: 256 random bits.  The n-th call
\* returns the n-th element of a fixed sequence of pairwise different strings:
\* a value is never drawn twice.
KeyBody(n) ==
    CASE n = 1 -> "0a1b2c3d4e5f6071"
      [] n = 2 -> "8293a4b5c6d7e8f9"
      [] n = 3 -> "1122334455667788"
      [] n = 4 -> "99aabbccddeeff00"
      [] n = 5 -> "0123456789abcdef"
      [] n = 6 -> "fedcba9876543210"
      [] n = 7 -> "13579bdf02468ace"
      [] n = 8 -> "2468ace013579bdf"
      [] OTHER -> "deadbeefcafef00d"

generateApiKey(prefix, n) == prefix \o "_" \o KeyBody(n)

\* ----------------------------------------------------------- JavaScript
Truthy(s) == s # Undefined /\ s # ""

\* req.headers['authorization']?.replace('Bearer ', '')
\* an Authorization header is scheme \o credentials; undefined stays undefined
ReplaceBearer(h) ==
    IF h = [scheme |-> Undefined, cred |-> Undefined] THEN Undefined
    ELSE IF h.scheme = "Bearer " THEN h.cred
    ELSE h.scheme \o h.cred

\* ExtractApiKey reading the Authorization header first
ExtractApiKeyBearerFirst(xApiKey, authorization) ==
    IF Truthy(ReplaceBearer(authorization)) THEN ReplaceBearer(authorization)
    ELSE xApiKey

\* req.headers['x-api-key'] || req.headers['authorization']?.replace(...)
ExtractApiKey(xApiKey, authorization) ==
    IF Truthy(xApiKey) THEN xApiKey ELSE ReplaceBearer(authorization)

NoAuthorization == [scheme |-> Undefined, cred |-> Undefined]

\* --------------------------------------------------------- credential store
\* ApiKey.findOne({ key })
FindOneByKey(k) ==
    IF \E d \in store : d.key = k
    THEN CHOOSE d \in store : d.key = k
    ELSE NoDoc

\* FindOneByClientId querying the name field
FindOneByName(c) ==
    IF \E d \in store : d.name = c
    THEN CHOOSE d \in store : d.name = c
    ELSE NoDoc

\* ApiKey.findOne({ clientId })
FindOneByClientId(c) ==
    IF \E d \in store : d.clientId = c
    THEN CHOOSE d \in store : d.clientId = c
    ELSE NoDoc

\* ModifiedPaths marking nothing: the save that follows writes nothing
ModifiedPathsNone(loaded, doc) == {}

\* the paths an assignment marked modified: Mongoose marks a path only when
\* the value assigned differs from the value loaded
ModifiedPaths(loaded, doc) == {f \in DOMAIN loaded : doc[f] # loaded[f]}

\* SaveDoc as an upsert: a document no longer stored is inserted again
SaveDocUpsert(s, doc, paths) ==
    IF \E d \in s : d._id = doc._id
    THEN {IF d._id = doc._id
          THEN [f \in DOMAIN d |-> IF f \in paths THEN doc[f] ELSE d[f]]
          ELSE d : d \in s}
    ELSE s \cup {doc}

\* SaveDoc writing usageCount as an atomic increment ($inc) of the stored
\* value
SaveDocIncrement(s, doc, paths) ==
    {IF d._id = doc._id
     THEN [f \in DOMAIN d |->
              IF f \notin paths THEN d[f]
              ELSE IF f = "usageCount" THEN d[f] + 1 ELSE doc[f]]
     ELSE d : d \in s}

\* doc.save() of a loaded document: $set of its modified paths on the stored
\* document with doc._id
SaveDoc(s, doc, paths) ==
    {IF d._id = doc._id
     THEN [f \in DOMAIN d |-> IF f \in paths THEN doc[f] ELSE d[f]]
     ELSE d : d \in s}

\* the collection without its unique indexes
NoUniqueIndexes(s) == TRUE

\* unique: true on key and on clientId: the indexes refuse a write that would
\* leave two documents with one key or one clientId
UniqueIndexesAllow(s) ==
    \A d, e \in s : d._id # e._id => d.key # e.key /\ d.clientId # e.clientId

\* --------------------------------------------------------------- responses
AuthFailure(status, error, code) ==
    [status |-> status,
     body |-> [success |-> FALSE, error |-> error, code |-> code]]

MissingKeyRes == AuthFailure(401, "API key is required", "MISSING_API_KEY")
InvalidKeyRes == AuthFailure(401, "Invalid API key", "INVALID_API_KEY")
DisabledKeyRes == AuthFailure(403, "API key is disabled", "DISABLED_API_KEY")
ExpiredKeyRes == AuthFailure(403, "API key has expired", "EXPIRED_API_KEY")
IpNotAllowedRes == AuthFailure(403, "IP address not allowed", "IP_NOT_ALLOWED")
AuthErrorRes == AuthFailure(500, "Authentication failed", "AUTH_ERROR")

RateLimitExceededRes(limit) ==
    [status |-> 429,
     body |-> [success |-> FALSE, error |-> "Rate limit exceeded",
               code |-> "RATE_LIMIT_EXCEEDED", limit |-> limit,
               retryAfter |-> RetryAfter]]

HandlerRes == [status |-> 200, body |-> [success |-> TRUE]]

\* the answer of router.get('/health') at instant now
HealthRes(now) ==
    [status |-> 200,
     body |-> [success |-> TRUE, status |-> "operational", timestamp |-> now,
               version |-> "1.0.0"]]


\* ------------------------------------------------------------------ requests
\* storeRaised, ledgerRaised: a call of this request to the credential store
\* or to the usage ledger rejected
IdleReq ==
    [pc |-> "idle",
     headers |-> [xApiKey |-> Undefined, authorization |-> NoAuthorization],
     apiKey |-> Undefined, ip |-> Undefined, path |-> Undefined,
     keyDoc |-> NoDoc, dirty |-> {}, apiClient |-> NoClient, res |-> NoRes,
     id |-> 0, authAt |-> NullDate, now |-> NullDate,
     authNexts |-> 0, rlNexts |-> 0, sent |-> 0, handled |-> 0,
     storeRaised |-> FALSE, ledgerRaised |-> FALSE]

\* Respond without its return: a failure response is sent and the request
\* goes on to the route handler
RespondNoReturn(r, response) ==
    [r EXCEPT !.pc = IF response.status = 200 THEN "done" ELSE "handler",
              !.res = response, !.sent = @ + 1, !.keyDoc = NoDoc,
              !.dirty = {}]

\* Respond echoing the presented key in the body
RespondEchoKey(r, response) ==
    [r EXCEPT !.pc = "done",
              !.res = [response EXCEPT !.body =
                          [f \in DOMAIN response.body \cup {"apiKey"} |->
                              IF f = "apiKey" THEN r.apiKey
                              ELSE response.body[f]]],
              !.sent = @ + 1, !.keyDoc = NoDoc, !.dirty = {}]

\* res.status(..).json(..) and return: the request is answered and goes no
\* further
Respond(r, response) ==
    [r EXCEPT !.pc = "done", !.res = response, !.sent = @ + 1,
              !.keyDoc = NoDoc, !.dirty = {}]

\* StandingCheck with the expiry check moved before the isActive check
StandingCheckExpiryFirst(keyDoc, now, clientIP) ==
    IF keyDoc = NoDoc THEN InvalidKeyRes
    ELSE IF keyDoc.expiresAt >= 0 /\ now > keyDoc.expiresAt
         THEN ExpiredKeyRes
    ELSE IF ~keyDoc.isActive THEN DisabledKeyRes
    ELSE IF keyDoc.allowedIPs # {} /\ clientIP \notin keyDoc.allowedIPs
         THEN IpNotAllowedRes
    ELSE NoRes

\* StandingCheck refusing a key at the very instant it expires
StandingCheckExpiredAtInstant(keyDoc, now, clientIP) ==
    IF keyDoc = NoDoc THEN InvalidKeyRes
    ELSE IF ~keyDoc.isActive THEN DisabledKeyRes
    ELSE IF keyDoc.expiresAt >= 0 /\ now >= keyDoc.expiresAt
         THEN ExpiredKeyRes
    ELSE IF keyDoc.allowedIPs # {} /\ clientIP \notin keyDoc.allowedIPs
         THEN IpNotAllowedRes
    ELSE NoRes

\* StandingCheck without the IP whitelist check
StandingCheckIgnoringIPs(keyDoc, now, clientIP) ==
    IF keyDoc = NoDoc THEN InvalidKeyRes
    ELSE IF ~keyDoc.isActive THEN DisabledKeyRes
    ELSE IF keyDoc.expiresAt >= 0 /\ now > keyDoc.expiresAt
         THEN ExpiredKeyRes
    ELSE NoRes

\* authenticateApiKey, lines 50-86: the checks on the looked-up document, in
\* the order of the source; NoRes when every check passes
StandingCheck(keyDoc, now, clientIP) ==
    IF keyDoc = NoDoc THEN InvalidKeyRes
    ELSE IF ~keyDoc.isActive THEN DisabledKeyRes
    ELSE IF keyDoc.expiresAt >= 0 /\ now > keyDoc.expiresAt
         THEN ExpiredKeyRes
    ELSE IF keyDoc.allowedIPs # {} /\ clientIP \notin keyDoc.allowedIPs
         THEN IpNotAllowedRes
    ELSE NoRes

\* ApiClientOf handing the secret downstream as well
ApiClientWithKey(keyDoc) ==
    [clientId |-> keyDoc.clientId, name |-> keyDoc.name,
     rateLimit |-> keyDoc.rateLimit, key |-> keyDoc.key]

\* authenticateApiKey, lines 94-98: req.apiClient
ApiClientOf(keyDoc) ==
    [clientId |-> keyDoc.clientId, name |-> keyDoc.name,
     rateLimit |-> keyDoc.rateLimit]

\* AuthCatch echoing error.message, as the admin controllers' catch does
AuthCatchWithMessage(r, detail) ==
    Respond(r, [status |-> 500,
                body |-> [success |-> FALSE, error |-> "Authentication failed",
                          code |-> "AUTH_ERROR", message |-> detail]])

\* authenticateApiKey, catch block: the error goes to console.error only
AuthCatch(r, detail) == Respond(r, AuthErrorRes)

\* A connection that is free or whose request was answered takes the next
\* request.  authenticateApiKey up to the await of keyDoc.save(): secret
\* extraction, ApiKey.findOne({ key }), the standing checks and the in-memory
\* update of usageCount and lastUsed.  storeOk = FALSE: findOne rejects.
AuthFind(r, xApiKey, authorization, ip, path, storeOk) ==
    /\ req[r].pc \in {"idle", "done"}
    /\ r <= inFlightCap
    /\ started < budget
    /\ started' = started + 1
    /\ LET apiKey == ExtractApiKey(xApiKey, authorization)
           r0 == [IdleReq EXCEPT !.headers = [xApiKey |-> xApiKey,
                                              authorization |->
                                                  authorization],
                                 !.apiKey = apiKey, !.ip = ip, !.path = path,
                                 !.id = started + 1, !.authAt = clock,
                                 !.storeRaised = Truthy(apiKey) /\ ~storeOk]
           keyDoc == FindOneByKey(apiKey)
           failure == StandingCheck(keyDoc, clock, ip)
           used == [keyDoc EXCEPT !.usageCount = @ + 1, !.lastUsed = clock]
       IN  req' = [req EXCEPT ![r] =
                IF ~Truthy(apiKey) THEN Respond(r0, MissingKeyRes)
                ELSE IF ~storeOk THEN AuthCatch(r0, StoreErrorDetail)
                ELSE IF failure # NoRes THEN Respond(r0, failure)
                ELSE [r0 EXCEPT !.pc = "auth_save", !.keyDoc = used,
                                !.dirty = ModifiedPaths(keyDoc, used)]]
    /\ UNCHANGED <<store, ledger, clock, adm, issued, nextId, adminOps,
                   inFlightCap, budget, ledgerReachable, rejected>>

\* authenticateApiKey from the await of keyDoc.save() to next().
\* storeOk = FALSE: save rejects.  A save whose document is gone writes
\* nothing; whether it rejects depends on the Mongoose version (missingThrows).
AuthSave(r, storeOk, missingThrows) ==
    /\ req[r].pc = "auth_save"
    /\ LET keyDoc == req[r].keyDoc
           present == \E d \in store : d._id = keyDoc._id
           raised == ~storeOk \/ (~present /\ missingThrows)
       IN  IF raised
           THEN /\ req' = [req EXCEPT ![r] =
                      AuthCatch([req[r] EXCEPT !.storeRaised = TRUE],
                                IF storeOk THEN NotFoundDetail
                                ELSE StoreErrorDetail)]
                /\ store' = store
           ELSE /\ store' = SaveDoc(store, keyDoc, req[r].dirty)
                /\ req' = [req EXCEPT ![r] =
                      [req[r] EXCEPT !.apiClient = ApiClientOf(keyDoc),
                                     !.authNexts = @ + 1,
                                     !.pc = "rate_count"]]
    /\ UNCHANGED <<ledger, clock, adm, issued, nextId, started, adminOps,
                   inFlightCap, budget, ledgerReachable, rejected>>

\* CountDocuments over the calendar hour that contains now
CountDocumentsCalendarHour(clientId, oneHourAgo) ==
    LET now == oneHourAgo + Hour
    IN  Cardinality({e \in ledger :
                       e.clientId = clientId /\ e.timestamp >= now - (now % Hour)})

\* CountDocuments without the clientId in its filter
CountDocumentsAllClients(clientId, oneHourAgo) ==
    Cardinality({e \in ledger : e.timestamp >= oneHourAgo})

\* CountDocuments with $gt for $gte
CountDocumentsExclusive(clientId, oneHourAgo) ==
    Cardinality({e \in ledger :
                   e.clientId = clientId /\ e.timestamp > oneHourAgo})

\* RateLimit.countDocuments({ clientId, timestamp: { $gte: oneHourAgo } })
CountDocuments(clientId, oneHourAgo) ==
    Cardinality({e \in ledger :
                   e.clientId = clientId /\ e.timestamp >= oneHourAgo})

\* LimitReached with > for >=
LimitReachedStrict(requestCount, rateLimit) == requestCount > rateLimit

\* rateLimitByApiKey, line 128
LimitReached(requestCount, rateLimit) == requestCount >= rateLimit

\* RateLimitCatch failing closed
RateLimitCatchClosed(r) ==
    Respond(r, AuthFailure(500, "Rate limiting failed", "RATE_LIMIT_ERROR"))

\* RateLimitCatch that only logs: no response and no next(), the request
\* hangs
RateLimitCatchHangs(r) == [r EXCEPT !.pc = "hung"]

\* rateLimitByApiKey, catch block: next() even if rate limiting fails
RateLimitCatch(r) ==
    [r EXCEPT !.pc = "handler", !.rlNexts = @ + 1]

\* rateLimitByApiKey up to the await of RateLimit.create(): now, the count
\* of the trailing hour and the comparison with req.apiClient.rateLimit.
\* ledgerOk = FALSE: countDocuments rejects.
RateLimitCount(r, ledgerOk) ==
    /\ req[r].pc = "rate_count"
    /\ ledgerOk \/ ~ledgerReachable
    /\ LET clientId == req[r].apiClient.clientId
           now == clock
           oneHourAgo == now - Hour
           requestCount == CountDocuments(clientId, oneHourAgo)
           r0 == [req[r] EXCEPT !.now = now, !.ledgerRaised = ~ledgerOk]
           exceeded ==
               ledgerOk /\ LimitReached(requestCount, req[r].apiClient.rateLimit)
       IN  /\ req' = [req EXCEPT ![r] =
                  IF ~ledgerOk THEN RateLimitCatch(r0)
                  ELSE IF exceeded
                  THEN Respond(r0, RateLimitExceededRes(
                                       req[r].apiClient.rateLimit))
                  ELSE [r0 EXCEPT !.pc = "rate_create"]]
           /\ rejected' = [rejected EXCEPT ![clientId] =
                  IF exceeded THEN now
                  ELSE IF ledgerOk THEN @ ELSE NullDate]
    /\ UNCHANGED <<store, ledger, clock, adm, issued, nextId, started,
                   adminOps, inFlightCap, budget, ledgerReachable>>

\* UsageEvent stamped when it is inserted instead of when it was counted
UsageEventStampedAtInsert(id, clientId, endpoint, timestamp) ==
    [id |-> id, clientId |-> clientId, endpoint |-> endpoint,
     timestamp |-> clock]

\* RateLimit.create({ clientId, endpoint: req.path, timestamp: now })
UsageEvent(id, clientId, endpoint, timestamp) ==
    [id |-> id, clientId |-> clientId, endpoint |-> endpoint,
     timestamp |-> timestamp]

\* rateLimitByApiKey from the await of RateLimit.create() to next().
\* ledgerOk = FALSE: create rejects.
RateLimitCreate(r, ledgerOk) ==
    /\ req[r].pc = "rate_create"
    /\ ledgerOk \/ ~ledgerReachable
    /\ IF ledgerOk
       THEN /\ ledger' = ledger \cup
                   {UsageEvent(req[r].id, req[r].apiClient.clientId,
                               req[r].path, req[r].now)}
            /\ req' = [req EXCEPT ![r] =
                   [req[r] EXCEPT !.pc = "handler", !.rlNexts = @ + 1]]
       ELSE /\ req' = [req EXCEPT ![r] =
                   RateLimitCatch([req[r] EXCEPT !.ledgerRaised = TRUE])]
            /\ UNCHANGED ledger
    /\ rejected' = [rejected EXCEPT ![req[r].apiClient.clientId] = NullDate]
    /\ UNCHANGED <<store, clock, adm, issued, nextId, started, adminOps,
                   inFlightCap, budget, ledgerReachable>>

\* the /api/v1 route handler behind router.use(authenticateApiKey) and
\* router.use(rateLimitByApiKey): the health check for /health, a controller
\* of serviceController otherwise
Handler(r) ==
    /\ req[r].pc = "handler"
    /\ req' = [req EXCEPT ![r] =
           [Respond(req[r], IF req[r].path = "/health" THEN HealthRes(clock)
                            ELSE HandlerRes)
               EXCEPT !.handled = @ + 1]]
    /\ UNCHANGED <<store, ledger, clock, adm, issued, nextId, started,
                   adminOps, inFlightCap, budget, ledgerReachable, rejected>>

\* --------------------------------------------------------------- environment
Tick(horizon) ==
    /\ clock < horizon
    /\ clock' = clock + 1
    /\ UNCHANGED <<store, ledger, req, adm, issued, nextId, started,
                   adminOps, inFlightCap, budget, ledgerReachable, rejected>>

\* rateLimitSchema.timestamp expires: 3600: an event expires when 3600
\* seconds have passed since its timestamp, and the TTL monitor removes the
\* expired events some time later
Expired(e) == e.timestamp + Hour <= clock

TtlSweep ==
    /\ \E e \in ledger : Expired(e)
    /\ ledger' = {e \in ledger : ~Expired(e)}
    /\ UNCHANGED <<store, clock, req, adm, issued, nextId, started,
                   adminOps, inFlightCap, budget, ledgerReachable, rejected>>

\* a document as ApiKey.create stores it (schema defaults applied)
ApiKeyDoc(id, key, name, clientId, rateLimit, expiresAt, allowedIPs, createdAt) ==
    [_id |-> id, key |-> key, name |-> name, clientId |-> clientId,
     isActive |-> TRUE, rateLimit |-> rateLimit, usageCount |-> 0,
     lastUsed |-> UndefinedDate, createdAt |-> createdAt,
     expiresAt |-> expiresAt,
     allowedIPs |-> allowedIPs, contactEmail |-> Undefined,
     notes |-> Undefined]

\* ------------------------------------------------------- admin controller
\* server.js line 50: the middleware mounted at /api/admin, in order
AdminMount == <<"adminRoutes">>

\* the JWT of a logged-in admin, and the Authorization header each admin
\* connection sends: a1 is an anonymous caller, a2 the admin's console
ValidJwt == "Bearer admin.jwt"
AuthorizationOf(a) == IF a = "a2" THEN ValidJwt ELSE Undefined

\* middleware/auth protect: lets a request through only with a valid JWT
protect(authorization) == authorization = ValidJwt

\* a request of connection a passes the middleware mounted in front of the
\* admin router
ReachesAdminRoutes(a) ==
    \A i \in 1..Len(AdminMount) :
        AdminMount[i] = "protect" => protect(AuthorizationOf(a))

\* a request on an /api/admin connection: the operation, its clientId, the
\* document it holds in memory with its modified paths, and the response;
\* storeRaised: a call of this request to the credential store rejected
IdleAdm ==
    [pc |-> "idle", op |-> "none", id |-> 0, body |-> <<>>,
     clientId |-> Undefined, doc |-> NoDoc, dirty |-> {},
     oldKey |-> Undefined, res |-> NoRes, storeRaised |-> FALSE]

\* a field of req.body, undefined when the body does not carry it
Field(body, f, undefinedValue) ==
    IF f \in DOMAIN body THEN body[f] ELSE undefinedValue

AdminError(status, error) ==
    [status |-> status, body |-> [success |-> FALSE, error |-> error]]

\* createApiKey, catch block: error.message goes into the response
CreateCatch(detail) ==
    [status |-> 500,
     body |-> [success |-> FALSE, error |-> "Failed to create API key",
               message |-> detail]]

\* createApiKey, lines 56-68
CreatedRes(key, apiKey) ==
    [status |-> 201,
     body |-> [success |-> TRUE, message |-> "API key created successfully",
               data |-> [apiKey |-> key, clientId |-> apiKey.clientId,
                         name |-> apiKey.name, rateLimit |-> apiKey.rateLimit,
                         expiresAt |-> apiKey.expiresAt,
                         createdAt |-> apiKey.createdAt]]]

\* regenerateApiKey, lines 282-291
RegeneratedRes(newKey, apiKey) ==
    [status |-> 200,
     body |-> [success |-> TRUE,
               message |-> "API key regenerated successfully",
               data |-> [apiKey |-> newKey, clientId |-> apiKey.clientId,
                         name |-> apiKey.name]]]

\* a projection that keeps the key
SelectAll(d) == d

\* .select('-key')
WithoutKey(d) == [f \in DOMAIN d \ {"key"} |-> d[f]]

\* String trim: true
RECURSIVE TrimLeft(_)
TrimLeft(str) ==
    IF Len(str) > 0 /\ SubSeq(str, 1, 1) = " "
    THEN TrimLeft(SubSeq(str, 2, Len(str)))
    ELSE str

RECURSIVE TrimRight(_)
TrimRight(str) ==
    IF Len(str) > 0 /\ SubSeq(str, Len(str), Len(str)) = " "
    THEN TrimRight(SubSeq(str, 1, Len(str) - 1))
    ELSE str

Trim(str) == TrimLeft(TrimRight(str))

\* required: true on key, name and clientId: an empty string is refused
Validates(d) == d.key # "" /\ d.name # "" /\ d.clientId # ""

AdminDone(a, response) ==
    [a EXCEPT !.pc = "done", !.res = response, !.doc = NoDoc, !.dirty = {}]

\* createApiKey up to the await of ApiKey.create(): the body, the required
\* fields, ApiKey.findOne({ clientId }), generateApiKey, expiresAt and the
\* new document.  storeOk = FALSE: findOne rejects.
CreateFind(a, body, storeOk) ==
    /\ adm[a].pc \in {"idle", "done"}
    /\ ReachesAdminRoutes(a)
    /\ adminOps < MaxAdminOps
    /\ adminOps' = adminOps + 1
    /\ LET name == Field(body, "name", Undefined)
           clientId == Field(body, "clientId", Undefined)
           rateLimit == Field(body, "rateLimit", DefaultRateLimit)
           expiresInDays == Field(body, "expiresInDays", 0)
           allowedIPs == Field(body, "allowedIPs", {})
           a0 == [IdleAdm EXCEPT !.op = "create", !.id = adminOps + 1,
                                 !.body = body, !.clientId = clientId,
                                 !.storeRaised =
                                     Truthy(name) /\ Truthy(clientId)
                                        /\ ~storeOk]
           existing == FindOneByClientId(clientId)
           key == generateApiKey("sk", issued + 1)
           expiresAt == IF expiresInDays # 0
                        THEN clock + expiresInDays * Day
                        ELSE NullDate
           apiKey == [ApiKeyDoc(nextId, key, Trim(name), clientId, rateLimit,
                                expiresAt, allowedIPs, clock)
                        EXCEPT !.contactEmail =
                                   Field(body, "contactEmail", Undefined),
                               !.notes = Field(body, "notes", Undefined)]
           proceeds == Truthy(name) /\ Truthy(clientId) /\ storeOk
                          /\ existing = NoDoc
       IN  /\ adm' = [adm EXCEPT ![a] =
                  IF ~Truthy(name) \/ ~Truthy(clientId)
                  THEN AdminDone(a0, AdminError(400,
                                   "name and clientId are required"))
                  ELSE IF ~storeOk
                  THEN AdminDone(a0, CreateCatch(StoreErrorDetail))
                  ELSE IF existing # NoDoc
                  THEN AdminDone(a0, AdminError(400,
                                   "Client ID already exists"))
                  ELSE [a0 EXCEPT !.pc = "create_insert", !.doc = apiKey]]
           /\ issued' = IF proceeds THEN issued + 1 ELSE issued
           /\ nextId' = IF proceeds THEN nextId + 1 ELSE nextId
    /\ UNCHANGED <<store, ledger, clock, req, started, inFlightCap, budget,
                   ledgerReachable, rejected>>

\* createApiKey from the await of ApiKey.create() to the response.
\* storeOk = FALSE: the insert rejects.
CreateInsert(a, storeOk) ==
    /\ adm[a].pc = "create_insert"
    /\ LET apiKey == adm[a].doc
       IN  IF ~storeOk
           THEN /\ adm' = [adm EXCEPT ![a] =
                      AdminDone([adm[a] EXCEPT !.storeRaised = TRUE],
                                CreateCatch(StoreErrorDetail))]
                /\ store' = store
           ELSE IF ~Validates(apiKey)
           THEN /\ adm' = [adm EXCEPT ![a] =
                      AdminDone(adm[a], CreateCatch("ValidationError"))]
                /\ store' = store
           ELSE IF ~UniqueIndexesAllow(store \cup {apiKey})
           THEN /\ adm' = [adm EXCEPT ![a] =
                      AdminDone(adm[a], CreateCatch(DuplicateKeyDetail))]
                /\ store' = store
           ELSE /\ store' = store \cup {apiKey}
                /\ adm' = [adm EXCEPT ![a] =
                      AdminDone(adm[a], CreatedRes(apiKey.key, apiKey))]
    /\ UNCHANGED <<ledger, clock, req, issued, nextId, started, adminOps,
                   inFlightCap, budget, ledgerReachable, rejected>>

\* regenerateApiKey up to the await of apiKey.save(): ApiKey.findOne({
\* clientId }), generateApiKey and the assignments to key, usageCount and
\* lastUsed.  storeOk = FALSE: findOne rejects.
RegenerateFind(a, clientId, storeOk) ==
    /\ adm[a].pc \in {"idle", "done"}
    /\ ReachesAdminRoutes(a)
    /\ adminOps < MaxAdminOps
    /\ adminOps' = adminOps + 1
    /\ LET a0 == [IdleAdm EXCEPT !.op = "regenerate", !.id = adminOps + 1,
                                 !.clientId = clientId,
                                 !.storeRaised = ~storeOk]
           apiKey == FindOneByClientId(clientId)
           newKey == generateApiKey("sk", issued + 1)
           reset == [apiKey EXCEPT !.key = newKey, !.usageCount = 0,
                                   !.lastUsed = NullDate]
           proceeds == storeOk /\ apiKey # NoDoc
       IN  /\ adm' = [adm EXCEPT ![a] =
                  IF ~storeOk
                  THEN AdminDone(a0, AdminError(500,
                                   "Failed to regenerate API key"))
                  ELSE IF apiKey = NoDoc
                  THEN AdminDone(a0, AdminError(404, "API key not found"))
                  ELSE [a0 EXCEPT !.pc = "regenerate_save", !.doc = reset,
                                  !.dirty = ModifiedPaths(apiKey, reset),
                                  !.oldKey = apiKey.key]]
           /\ issued' = IF proceeds THEN issued + 1 ELSE issued
    /\ UNCHANGED <<store, ledger, clock, req, nextId, started, inFlightCap,
                   budget, ledgerReachable, rejected>>

\* regenerateApiKey from the await of apiKey.save() to the response.
\* storeOk = FALSE: save rejects; missingThrows as for AuthSave.
RegenerateSave(a, storeOk, missingThrows) ==
    /\ adm[a].pc = "regenerate_save"
    /\ LET apiKey == adm[a].doc
           present == \E d \in store : d._id = apiKey._id
           saved == SaveDoc(store, apiKey, adm[a].dirty)
           raised == \/ ~storeOk
                     \/ ~present /\ missingThrows
                     \/ ~UniqueIndexesAllow(saved)
       IN  IF raised
           THEN /\ adm' = [adm EXCEPT ![a] =
                      AdminDone([adm[a] EXCEPT !.storeRaised = TRUE],
                                AdminError(500,
                                  "Failed to regenerate API key"))]
                /\ store' = store
           ELSE /\ store' = saved
                /\ adm' = [adm EXCEPT ![a] =
                      AdminDone(adm[a], RegeneratedRes(apiKey.key, apiKey))]
    /\ UNCHANGED <<ledger, clock, req, issued, nextId, started, adminOps,
                   inFlightCap, budget, ledgerReachable, rejected>>

\* allowedUpdates with the key among the fields that may be updated
allowedUpdatesWithKey ==
    {"name", "isActive", "rateLimit", "expiresAt", "allowedIPs",
     "contactEmail", "notes", "key"}

\* updateApiKey, line 182
allowedUpdates ==
    {"name", "isActive", "rateLimit", "expiresAt", "allowedIPs",
     "contactEmail", "notes"}

\* updateApiKey, lines 184-189: the fields of the body that may be updated
Updates(body) == [f \in DOMAIN body \cap allowedUpdates |-> body[f]]

\* the document after $set of the updates
Updated(d, updates) ==
    [f \in DOMAIN d |-> IF f \in DOMAIN updates THEN updates[f] ELSE d[f]]

\* updateApiKey: ApiKey.findOneAndUpdate({ clientId }, updates, { new: true,
\* runValidators: true }).select('-key') and the response.
\* storeOk = FALSE: findOneAndUpdate rejects.
UpdateApiKey(a, clientId, body, storeOk) ==
    /\ adm[a].pc \in {"idle", "done"}
    /\ ReachesAdminRoutes(a)
    /\ adminOps < MaxAdminOps
    /\ adminOps' = adminOps + 1
    /\ LET a0 == [IdleAdm EXCEPT !.op = "update", !.id = adminOps + 1,
                                 !.body = body, !.clientId = clientId,
                                 !.storeRaised = ~storeOk]
           found == FindOneByClientId(clientId)
           apiKey == Updated(found, Updates(body))
           raised == ~storeOk \/ (found # NoDoc /\ ~Validates(apiKey))
       IN  IF raised
           THEN /\ adm' = [adm EXCEPT ![a] =
                      AdminDone(a0, AdminError(500,
                                  "Failed to update API key"))]
                /\ store' = store
           ELSE IF found = NoDoc
           THEN /\ adm' = [adm EXCEPT ![a] =
                      AdminDone(a0, AdminError(404, "API key not found"))]
                /\ store' = store
           ELSE /\ store' = (store \ {found}) \cup {apiKey}
                /\ adm' = [adm EXCEPT ![a] =
                      AdminDone(a0,
                          [status |-> 200,
                           body |-> [success |-> TRUE,
                                     message |-> "API key updated successfully",
                                     data |-> WithoutKey(apiKey)]])]
    /\ UNCHANGED <<ledger, clock, req, issued, nextId, started, inFlightCap,
                   budget, ledgerReachable, rejected>>

\* deleteApiKey: findOneAndDelete when req.query.hardDelete is 'true',
\* findOneAndUpdate({ clientId }, { isActive: false }) otherwise; the same
\* response whether or not a document was found.
\* storeOk = FALSE: the store call rejects.
DeleteApiKey(a, clientId, hardDelete, storeOk) ==
    /\ adm[a].pc \in {"idle", "done"}
    /\ ReachesAdminRoutes(a)
    /\ adminOps < MaxAdminOps
    /\ adminOps' = adminOps + 1
    /\ LET a0 == [IdleAdm EXCEPT !.op = "delete", !.id = adminOps + 1,
                                 !.clientId = clientId,
                                 !.storeRaised = ~storeOk]
           found == FindOneByClientId(clientId)
       IN  IF ~storeOk
           THEN /\ adm' = [adm EXCEPT ![a] =
                      AdminDone(a0, AdminError(500,
                                  "Failed to delete API key"))]
                /\ store' = store
           ELSE /\ store' =
                      IF found = NoDoc THEN store
                      ELSE IF hardDelete = "true" THEN store \ {found}
                      ELSE (store \ {found})
                              \cup {[found EXCEPT !.isActive = FALSE]}
                /\ adm' = [adm EXCEPT ![a] =
                      AdminDone(a0,
                          [status |-> 200,
                           body |-> [success |-> TRUE,
                                     message |->
                                        IF hardDelete = "true"
                                        THEN "API key deleted permanently"
                                        ELSE "API key deactivated"]])]
    /\ UNCHANGED <<ledger, clock, req, issued, nextId, started, inFlightCap,
                   budget, ledgerReachable, rejected>>

\* --------------------------------------------------------- admin read views
\* String.prototype.slice(-n): the last n characters
Slice(str, n) ==
    IF Len(str) <= n THEN str ELSE SubSeq(str, Len(str) - n + 1, Len(str))

\* the eight bullets in front of a key preview
Mask == "********"

\* $options: 'i' over the letters that occur in capitals in names
LowerChar(c) ==
    CASE c = "A" -> "a"
      [] c = "B" -> "b"
      [] OTHER -> c

RECURSIVE ToLower(_)
ToLower(str) ==
    IF Len(str) = 0 THEN ""
    ELSE LowerChar(SubSeq(str, 1, 1)) \o ToLower(SubSeq(str, 2, Len(str)))

\* { $regex: search, $options: 'i' } for a search without metacharacters
RegexI(str, search) ==
    LET t == ToLower(str)
        u == ToLower(search)
    IN  \E i \in 1..(Len(t) - Len(u) + 1) :
            SubSeq(t, i, i + Len(u) - 1) = u

\* listApiKeys, lines 88-97: the documents the query selects
ListQuery(active, search) ==
    {d \in store :
        /\ active # Undefined => d.isActive = (active = "true")
        /\ Truthy(search) =>
              RegexI(d.name, search) \/ RegexI(d.clientId, search)}

\* .sort({ field: -1 }): the documents by descending field
RECURSIVE SortDesc(_, _)
SortDesc(docs, field) ==
    IF docs = {} THEN <<>>
    ELSE LET top == CHOOSE d \in docs : \A e \in docs : d[field] >= e[field]
         IN  <<top>> \o SortDesc(docs \ {top}, field)

\* k.key.slice(-8) on a document: a TypeError when the document was loaded
\* without its key
PreviewThrows(k) == "key" \notin DOMAIN k

\* listApiKeys, lines 106-118
ListView(k) ==
    [id |-> k._id, name |-> k.name, clientId |-> k.clientId,
     isActive |-> k.isActive, rateLimit |-> k.rateLimit,
     usageCount |-> k.usageCount, lastUsed |-> k.lastUsed,
     createdAt |-> k.createdAt, expiresAt |-> k.expiresAt,
     contactEmail |-> k.contactEmail,
     keyPreview |-> Mask \o Slice(k.key, 8)]

\* getApiKey, lines 149-163
DetailView(k) ==
    [id |-> k._id, name |-> k.name, clientId |-> k.clientId,
     isActive |-> k.isActive, rateLimit |-> k.rateLimit,
     usageCount |-> k.usageCount, lastUsed |-> k.lastUsed,
     createdAt |-> k.createdAt, expiresAt |-> k.expiresAt,
     allowedIPs |-> k.allowedIPs, contactEmail |-> k.contactEmail,
     notes |-> k.notes,
     keyPreview |-> Mask \o Slice(k.key, 8)]

\* listApiKeys: ApiKey.find(query).select('-key').sort({ createdAt: -1 })
\* and the response.  storeOk = FALSE: find rejects.
ListApiKeys(a, active, search, storeOk) ==
    /\ adm[a].pc \in {"idle", "done"}
    /\ ReachesAdminRoutes(a)
    /\ adminOps < MaxAdminOps
    /\ adminOps' = adminOps + 1
    /\ LET a0 == [IdleAdm EXCEPT !.op = "list", !.id = adminOps + 1,
                                 !.body = [active |-> active,
                                           search |-> search],
                                 !.storeRaised = ~storeOk]
           found == SortDesc(ListQuery(active, search), "createdAt")
           keys == [i \in 1..Len(found) |-> WithoutKey(found[i])]
           failed == AdminError(500, "Failed to list API keys")
       IN  adm' = [adm EXCEPT ![a] =
               IF ~storeOk THEN AdminDone(a0, failed)
               ELSE IF \E i \in 1..Len(keys) : PreviewThrows(keys[i])
               THEN AdminDone(a0, failed)
               ELSE AdminDone(a0,
                        [status |-> 200,
                         body |-> [success |-> TRUE, count |-> Len(keys),
                                   data |-> [i \in 1..Len(keys) |->
                                                ListView(keys[i])]]])]
    /\ UNCHANGED <<store, ledger, clock, req, issued, nextId, started,
                   inFlightCap, budget, ledgerReachable, rejected>>

\* getApiKey: ApiKey.findOne({ clientId }).select('-key') and the response.
\* storeOk = FALSE: findOne rejects.
GetApiKey(a, clientId, storeOk) ==
    /\ adm[a].pc \in {"idle", "done"}
    /\ ReachesAdminRoutes(a)
    /\ adminOps < MaxAdminOps
    /\ adminOps' = adminOps + 1
    /\ LET a0 == [IdleAdm EXCEPT !.op = "get", !.id = adminOps + 1,
                                 !.clientId = clientId,
                                 !.storeRaised = ~storeOk]
           found == FindOneByClientId(clientId)
           apiKey == WithoutKey(found)
           failed == AdminError(500, "Failed to fetch API key")
       IN  adm' = [adm EXCEPT ![a] =
               IF ~storeOk THEN AdminDone(a0, failed)
               ELSE IF found = NoDoc
               THEN AdminDone(a0, AdminError(404, "API key not found"))
               ELSE IF PreviewThrows(apiKey)
               THEN AdminDone(a0, failed)
               ELSE AdminDone(a0,
                        [status |-> 200,
                         body |-> [success |-> TRUE,
                                   data |-> DetailView(apiKey)]])]
    /\ UNCHANGED <<store, ledger, clock, req, issued, nextId, started,
                   inFlightCap, budget, ledgerReachable, rejected>>

\* getStats up to the await of ApiKey.find(): the four counts of
\* Promise.all.  The User collection is not part of the credential store:
\* its two counts are what the environment answers.
\* storeOk = FALSE: a count rejects.
StatsCount(a, totalProfiles, profilesLast30Days, storeOk) ==
    /\ adm[a].pc \in {"idle", "done"}
    /\ ReachesAdminRoutes(a)
    /\ adminOps < MaxAdminOps
    /\ adminOps' = adminOps + 1
    /\ LET a0 == [IdleAdm EXCEPT !.op = "stats", !.id = adminOps + 1,
                                 !.storeRaised = ~storeOk]
           counts == [_id |-> 0,
                      totalKeys |-> Cardinality(store),
                      activeKeys |->
                          Cardinality({d \in store : d.isActive}),
                      totalProfiles |-> totalProfiles,
                      profilesLast30Days |-> profilesLast30Days]
       IN  adm' = [adm EXCEPT ![a] =
               IF ~storeOk
               THEN AdminDone(a0, AdminError(500,
                                "Failed to fetch statistics"))
               ELSE [a0 EXCEPT !.pc = "stats_find", !.doc = counts]]
    /\ UNCHANGED <<store, ledger, clock, req, issued, nextId, started,
                   inFlightCap, budget, ledgerReachable, rejected>>

\* getStats, lines 342-347
TopClientView(c) ==
    [name |-> c.name, clientId |-> c.clientId, usageCount |-> c.usageCount,
     lastUsed |-> c.lastUsed]

\* getStats from ApiKey.find({ isActive: true }).sort({ usageCount: -1 })
\* .limit(10).select('-key') to the response.
\* storeOk = FALSE: find rejects.
StatsFind(a, storeOk) ==
    /\ adm[a].pc = "stats_find"
    /\ LET counts == adm[a].doc
           found == SortDesc({d \in store : d.isActive}, "usageCount")
           top == [i \in 1..(IF Len(found) < 10 THEN Len(found) ELSE 10) |->
                      WithoutKey(found[i])]
       IN  adm' = [adm EXCEPT ![a] =
               IF ~storeOk
               THEN AdminDone([adm[a] EXCEPT !.storeRaised = TRUE],
                              AdminError(500, "Failed to fetch statistics"))
               ELSE AdminDone(adm[a],
                        [status |-> 200,
                         body |-> [success |-> TRUE,
                                   data |->
                                     [apiKeys |->
                                        [total |-> counts.totalKeys,
                                         active |-> counts.activeKeys,
                                         inactive |-> counts.totalKeys
                                                        - counts.activeKeys],
                                      profiles |->
                                        [total |-> counts.totalProfiles,
                                         last30Days |->
                                            counts.profilesLast30Days],
                                      topClients |->
                                        [i \in 1..Len(top) |->
                                            TopClientView(top[i])]]]])]
    /\ UNCHANGED <<store, ledger, clock, req, issued, nextId, started,
                   adminOps, inFlightCap, budget, ledgerReachable, rejected>>

\* ------------------------------------------------------------ specification
\* the credential stores the gateway starts from: the key of acme_1 in every
\* standing (active or revoked, with or without expiry and IP restriction),
\* beside an unrestricted key of beta_2
InitStores ==
    {{[ApiKeyDoc(1, generateApiKey("sk", 1), "Acme", "acme_1", rl, ex, ips, 0)
         EXCEPT !.isActive = act],
      ApiKeyDoc(2, generateApiKey("sk", 2), "Beta", "beta_2", 1, NullDate, {}, 0)} :
        <<act, ex, ips, rl>> \in
            BOOLEAN \X {NullDate, 1} \X {{}, {"1.2.3.4"}} \X {2}}

XApiKeyHeaders ==
    {Undefined, "", generateApiKey("sk", 1), generateApiKey("sk", 2),
     generateApiKey("sk", 3)}

AuthorizationHeaders ==
    {NoAuthorization,
     [scheme |-> "Bearer ", cred |-> generateApiKey("sk", 1)],
     [scheme |-> "Basic ", cred |-> generateApiKey("sk", 1)],
     [scheme |-> "Bearer ", cred |-> ""]}

\* the standing Init leaves to its caller: the credential store, the number
\* of requests the clients send and of connections serving them, and whether
\* the usage ledger answers every call (TRUE) or may fail one (FALSE)
InitWith(stores, requests, connections, reachable) ==
    /\ store \in stores
    /\ ledger = {}
    /\ clock = 0
    /\ req = [r \in Reqs |-> IdleReq]
    /\ adm = [a \in Admins |-> IdleAdm]
    /\ issued = 2
    /\ nextId = 3
    /\ started = 0
    /\ adminOps = 0
    /\ inFlightCap = connections
    /\ budget = requests
    /\ ledgerReachable \in reachable
    /\ rejected = [c \in Clients |-> NullDate]

\* the steps of authenticateApiKey for requests whose headers and address
\* are drawn from xs, as and ips; oks = {TRUE}: the store answers every call
AuthenticateOn(paths, xs, as, ips, oks) ==
    \/ \E r \in Reqs, x \in xs, a \in as, ip \in ips, p \in paths,
          ok \in oks :
          AuthFind(r, x, a, ip, p, ok)
    \/ \E r \in Reqs, ok \in oks, mt \in BOOLEAN : AuthSave(r, ok, mt)

Authenticate(xs, as, ips, oks) == AuthenticateOn(Paths, xs, as, ips, oks)

\* the steps of rateLimitByApiKey and of the route handler behind it
Serve(oks) ==
    \/ \E r \in Reqs, ok \in oks : RateLimitCount(r, ok)
    \/ \E r \in Reqs, ok \in oks : RateLimitCreate(r, ok)
    \/ \E r \in Reqs : Handler(r)

Gateway(xs, as, ips, oks) == Authenticate(xs, as, ips, oks) \/ Serve(oks)

\* Spec: one connection, requests with every kind of X-API-Key header
\* against every standing of the key of acme_1
Init == InitWith(InitStores, MaxAuthRequests, 1, {FALSE})

Next ==
    \/ Gateway(XApiKeyHeaders, {NoAuthorization}, IPs, BOOLEAN)
    \/ Tick(MaxAuthTime)

Spec == Init /\ [][Next]_vars

\* SpecQuota: one connection, requests with the valid keys of both clients
\* against a store in which both are in good standing
QuotaStores ==
    {s \in InitStores :
        \A d \in s : d.isActive /\ d.expiresAt = NullDate /\ d.allowedIPs = {}}

InitQuota == InitWith(QuotaStores, MaxRequests, 1, BOOLEAN)

NextQuota ==
    \/ Gateway({generateApiKey("sk", 1), generateApiKey("sk", 2)},
               {NoAuthorization}, {"9.9.9.9"}, BOOLEAN)
    \/ Tick(MaxTime)
    \/ TtlSweep

SpecQuota == InitQuota /\ [][NextQuota]_vars

\* SpecHeaders: one connection, requests with every pair of X-API-Key and
\* Authorization headers against a store in which both keys are in good
\* standing and answers every call
InitHeaders == InitWith(QuotaStores, MaxAuthRequests, 1, {TRUE})

NextHeaders ==
    Gateway(XApiKeyHeaders, AuthorizationHeaders, {"9.9.9.9"}, {TRUE})

SpecHeaders == InitHeaders /\ [][NextHeaders]_vars

\* SpecHealth: one connection, requests for the health check and for a
\* profile route with every kind of X-API-Key header, the stores answering
\* every call
InitHealth == InitWith(QuotaStores, MaxAuthRequests, 1, {TRUE})

NextHealth ==
    \/ AuthenticateOn(Routes, XApiKeyHeaders, {NoAuthorization}, {"9.9.9.9"},
                      {TRUE})
    \/ Serve({TRUE})
    \/ Tick(MaxAuthTime)

SpecHealth == InitHealth /\ [][NextHealth]_vars

\* SpecAdmin: an empty store, two admin connections whose operations
\* interleave at their awaits, and one gateway connection presenting the keys
\* issued so far, followed to the end of authenticateApiKey (the middleware
\* that reads and writes the credential store); the store may fail the calls
\* of createApiKey and answers all others
CreateBodies ==
    {[name |-> "Acme", clientId |-> c] : c \in Clients}
      \cup {[clientId |-> "acme_1"]}

UpdateBodies ==
    {[isActive |-> TRUE, rateLimit |-> 5, clientId |-> "beta_2",
      key |-> "sk_chosen", usageCount |-> 7, lastUsed |-> 2,
      createdAt |-> 1, _id |-> 9]}

InitAdmin ==
    /\ store = {}
    /\ ledger = {}
    /\ clock = 0
    /\ req = [r \in Reqs |-> IdleReq]
    /\ adm = [a \in Admins |-> IdleAdm]
    /\ issued = 0
    /\ nextId = 1
    /\ started = 0
    /\ adminOps = 0
    /\ inFlightCap = 1
    /\ budget = MaxAdminRequests
    /\ ledgerReachable = TRUE
    /\ rejected = [c \in Clients |-> NullDate]

\* updateApiKey and deleteApiKey have no await between their store call and
\* their response: every interleaving of two admin operations has one of them
\* on the first connection
Admin ==
    \/ \E a \in Admins, body \in CreateBodies, ok \in BOOLEAN :
          CreateFind(a, body, ok)
    \/ \E a \in Admins, ok \in BOOLEAN : CreateInsert(a, ok)
    \/ \E a \in Admins, c \in Clients : RegenerateFind(a, c, TRUE)
    \/ \E a \in Admins, mt \in BOOLEAN : RegenerateSave(a, TRUE, mt)
    \/ \E c \in Clients, body \in UpdateBodies :
          UpdateApiKey("a1", c, body, TRUE)
    \/ \E c \in Clients, hd \in {Undefined, "true"} :
          DeleteApiKey("a1", c, hd, TRUE)
    \/ \E c \in Clients : GetApiKey("a1", c, TRUE)

NextAdmin ==
    \/ Admin
    \/ Authenticate({generateApiKey("sk", n) : n \in 1..MaxAdminOps},
                    {NoAuthorization}, {"9.9.9.9"}, {TRUE})

SpecAdmin == InitAdmin /\ [][NextAdmin]_vars

\* SpecViews: a store holding the keys of acme_1 and beta_2, one admin
\* connection that runs every operation of the admin router, and one gateway
\* connection presenting issued, never issued and malformed keys, followed to
\* the end of authenticateApiKey; the store may fail the calls of the read
\* views and answers all others
InitViews == InitWith(QuotaStores, MaxAdminRequests, 1, {TRUE})

Views ==
    \/ \E body \in CreateBodies : CreateFind("a1", body, TRUE)
    \/ CreateInsert("a1", TRUE)
    \/ \E c \in Clients : RegenerateFind("a1", c, TRUE)
    \/ \E mt \in BOOLEAN : RegenerateSave("a1", TRUE, mt)
    \/ \E c \in Clients, body \in UpdateBodies :
          UpdateApiKey("a1", c, body, TRUE)
    \/ \E c \in Clients, hd \in {Undefined, "true"} :
          DeleteApiKey("a1", c, hd, TRUE)
    \/ \E active \in {Undefined, "false"}, search \in {Undefined, "acme"},
          ok \in BOOLEAN :
          ListApiKeys("a1", active, search, ok)
    \/ \E c \in Clients, ok \in BOOLEAN : GetApiKey("a1", c, ok)
    \/ \E ok \in BOOLEAN : StatsCount("a1", 0, 0, ok)
    \/ \E ok \in BOOLEAN : StatsFind("a1", ok)

PresentedKeys ==
    {generateApiKey("sk", n) : n \in 1..(2 + MaxAdminOps)} \cup {"not-a-key"}

NextViews ==
    \/ Views
    \/ Authenticate(PresentedKeys, {NoAuthorization}, {"9.9.9.9"}, {TRUE})

SpecViews == InitViews /\ [][NextViews]_vars

\* SpecConcurrent: MaxInFlight connections serving requests that all present
\* the key of acme_1, interleaved at every await, while one admin connection
\* updates and rotates that key; the stores answer every call
InitConcurrent == InitWith(QuotaStores, MaxRequests, MaxInFlight, {TRUE})

NextConcurrent ==
    \/ Gateway({generateApiKey("sk", 1)}, {NoAuthorization}, {"9.9.9.9"},
               {TRUE})
    \/ \E body \in UpdateBodies : UpdateApiKey("a1", "acme_1", body, TRUE)
    \/ RegenerateFind("a1", "acme_1", TRUE)
    \/ RegenerateSave("a1", TRUE, FALSE)

SpecConcurrent == InitConcurrent /\ [][NextConcurrent]_vars

\* SpecLifecycle: a store holding the keys of acme_1 and beta_2, one gateway
\* connection serving requests that present any key issued so far, and one
\* admin connection that creates, updates, rotates and revokes the key of
\* beta_2 between the steps of those requests, while time passes within the
\* hour that follows the first request (no event ages out); the stores answer
\* every call
LifecycleCreateBodies == {[name |-> "Beta", clientId |-> "beta_2", rateLimit |-> 1]}
LifecycleUpdateBodies == {[name |-> "Beta Ltd"]}

InitLifecycle == InitWith(QuotaStores, MaxAuthRequests, 1, {TRUE})

NextLifecycle ==
    \/ Gateway({generateApiKey("sk", n) : n \in 1..issued},
               {NoAuthorization}, {"9.9.9.9"}, {TRUE})
    \/ \E body \in LifecycleCreateBodies : CreateFind("a1", body, TRUE)
    \/ CreateInsert("a1", TRUE)
    \/ \E body \in LifecycleUpdateBodies :
          UpdateApiKey("a1", "beta_2", body, TRUE)
    \/ RegenerateFind("a1", "beta_2", TRUE)
    \/ \E mt \in BOOLEAN : RegenerateSave("a1", TRUE, mt)
    \/ \E hd \in {Undefined, "true"} : DeleteApiKey("a1", "beta_2", hd, TRUE)
    \/ Tick(Hour - 1)

SpecLifecycle == InitLifecycle /\ [][NextLifecycle]_vars

\* SpecRace: one connection, or two whose requests interleave at every
\* await, serving requests that all present the key of beta_2 while time
\* passes; the stores answer every call and no admin operation runs
RaceConnections == {1, 2}

InitRace ==
    \E n \in RaceConnections : InitWith(QuotaStores, MaxRequests, n, {TRUE})

NextRace ==
    \/ Gateway({generateApiKey("sk", 2)}, {NoAuthorization}, {"9.9.9.9"},
               {TRUE})
    \/ Tick(MaxTime)

SpecRace == InitRace /\ [][NextRace]_vars

\* SpecLive: concurrent requests without a key or with the key of beta_2,
\* every store call free to fail; each call returns or fails and the
\* continuation of the request then runs
InitLive ==
    \E n \in RaceConnections : InitWith(QuotaStores, MaxRequests, n, {FALSE})

NextLive ==
    Gateway({Undefined, generateApiKey("sk", 2)}, {NoAuthorization},
            {"9.9.9.9"}, BOOLEAN)

\* the pending store call of request r resolves and the request goes on
Resolves(r) ==
    \/ \E ok \in BOOLEAN, mt \in BOOLEAN : AuthSave(r, ok, mt)
    \/ \E ok \in BOOLEAN : RateLimitCount(r, ok)
    \/ \E ok \in BOOLEAN : RateLimitCreate(r, ok)
    \/ Handler(r)

SpecLive ==
    InitLive /\ [][NextLive]_vars /\ \A r \in Reqs : WF_vars(Resolves(r))

\* SpecPayloads: an empty store and one admin connection creating and
\* updating keys with every kind of rateLimit and expiresInDays in the
\* request body, at different times; the store answers every call
RateLimitPayloads == {0, -1, 5}
ExpiresInDaysPayloads == {0, 1}

PayloadBodies ==
    LET base == {[name |-> "Acme", clientId |-> c] : c \in Clients}
        withRate == base \cup
            {[name |-> b.name, clientId |-> b.clientId, rateLimit |-> rl] :
                b \in base, rl \in RateLimitPayloads}
    IN  withRate \cup
            {[f \in DOMAIN b \cup {"expiresInDays"} |->
                 IF f = "expiresInDays" THEN e ELSE b[f]] :
                b \in withRate, e \in ExpiresInDaysPayloads}

PayloadUpdates ==
    {[rateLimit |-> rl] : rl \in RateLimitPayloads} \cup {[name |-> "Acme Ltd"]}

NextPayloads ==
    \/ \E body \in PayloadBodies : CreateFind("a1", body, TRUE)
    \/ CreateInsert("a1", TRUE)
    \/ \E c \in Clients, body \in PayloadUpdates :
          UpdateApiKey("a1", c, body, TRUE)
    \/ Tick(MaxAuthTime)

SpecPayloads == InitAdmin /\ [][NextPayloads]_vars

\* ==================================================================== claims
\* the step in which connection r took a request and looked its key up
LookedUp(r) == started' = started + 1 /\ req'[r].id = started + 1

\* the response of r is the failure with this status and code
Failed(q, status, code) ==
    q.pc = "done" /\ q.res.status = status /\ q.res.body.code = code

\* the events of client c in the hour that ends at time t
InWindow(c, t) ==
    {e \in ledger : e.clientId = c /\ e.timestamp >= t - Hour /\ e.timestamp <= t}

\* ------------------------------------------------------------------------ C1
C1_Lookup ==
    \A r \in Reqs : LookedUp(r) =>
        \A d \in store :
            ( /\ d.key = req'[r].apiKey
              /\ ~req'[r].storeRaised
              /\ d.isActive
              /\ (d.expiresAt = NullDate \/ d.expiresAt > clock)
              /\ (d.allowedIPs = {} \/ req'[r].ip \in d.allowedIPs) )
            => req'[r].pc = "auth_save" /\ req'[r].res = NoRes

C1_Save ==
    \A r \in Reqs :
        (req[r].pc = "auth_save" /\ req'[r].pc # "auth_save"
           /\ ~req'[r].storeRaised)
        => /\ req'[r].pc = "rate_count"
           /\ req'[r].authNexts = 1
           /\ req'[r].sent = 0
           /\ \E d \in store :
                 /\ d.key = req[r].apiKey
                 /\ req'[r].apiClient = [clientId |-> d.clientId,
                                         name |-> d.name,
                                         rateLimit |-> d.rateLimit]

\* C1: a request that presents the key of a stored record that is active,
\* has no expiry or one later than now, and has no IP restriction or one that
\* contains the requester, passes every check when the store answers; when
\* the save answers too it is passed on exactly once with req.apiClient equal
\* to the record's clientId, name and rateLimit and no other field.
C1_Authenticates == [][C1_Lookup /\ C1_Save]_vars

C1_Witness ==
    \E r \in Reqs, d \in store :
        /\ req[r].pc = "rate_count"
        /\ d.key = req[r].apiKey
        /\ d.expiresAt # NullDate /\ d.expiresAt >= req[r].authAt
        /\ d.allowedIPs # {} /\ req[r].ip \in d.allowedIPs
        /\ req[r].apiClient = [clientId |-> "acme_1", name |-> "Acme",
                               rateLimit |-> 2]

\* ------------------------------------------------------------------------ C2
C2_Order ==
    \A r \in Reqs : (LookedUp(r) /\ ~req'[r].storeRaised) =>
        LET q == req'[r]
            docs == {d \in store : d.key = q.apiKey}
            expired(d) == d.expiresAt # NullDate /\ clock > d.expiresAt
            blocked(d) == d.allowedIPs # {} /\ q.ip \notin d.allowedIPs
        IN  /\ ~Truthy(q.apiKey) => Failed(q, 401, "MISSING_API_KEY")
            /\ (Truthy(q.apiKey) /\ docs = {})
                   => Failed(q, 401, "INVALID_API_KEY")
            /\ \A d \in docs :
                 /\ ~d.isActive => Failed(q, 403, "DISABLED_API_KEY")
                 /\ (d.isActive /\ expired(d))
                        => Failed(q, 403, "EXPIRED_API_KEY")
                 /\ (d.isActive /\ ~expired(d) /\ blocked(d))
                        => Failed(q, 403, "IP_NOT_ALLOWED")

\* C2: authenticateApiKey reports the first failing check in the order
\* secret present, lookup, isActive, expiresAt, allowedIPs: a revoked key is
\* DISABLED_API_KEY whatever its expiry and IP state, an expired active key
\* is EXPIRED_API_KEY whatever its IP state.
C2_FirstFailingCheck == [][C2_Order]_vars

C2_Witness ==
    \E r \in Reqs, d \in store :
        /\ Failed(req[r], 403, "DISABLED_API_KEY")
        /\ d.key = req[r].apiKey
        /\ d.expiresAt # NullDate /\ req[r].authAt > d.expiresAt
        /\ d.allowedIPs # {} /\ req[r].ip \notin d.allowedIPs

\* ------------------------------------------------------------------------ C3
C3_Count ==
    \A r \in Reqs :
        (req[r].pc = "rate_count" /\ req'[r].pc # "rate_count"
           /\ ~req'[r].ledgerRaised)
        => LET c == req[r].apiClient.clientId
               limit == req[r].apiClient.rateLimit
           IN  /\ \E d \in store : d.clientId = c /\ d.rateLimit = limit
               /\ IF Cardinality(InWindow(c, clock)) >= limit
                  THEN /\ req'[r].pc = "done"
                       /\ req'[r].res =
                            [status |-> 429,
                             body |-> [success |-> FALSE,
                                       error |-> "Rate limit exceeded",
                                       code |-> "RATE_LIMIT_EXCEEDED",
                                       limit |-> limit, retryAfter |-> 3600]]
                       /\ ledger' = ledger
                  ELSE /\ req'[r].pc = "rate_create"
                       /\ req'[r].now = clock
                       /\ req'[r].res = NoRes

C3_Append ==
    \A r \in Reqs :
        (req[r].pc = "rate_create" /\ req'[r].pc # "rate_create"
           /\ ~req'[r].ledgerRaised)
        => /\ req'[r].pc = "handler" /\ req'[r].rlNexts = 1
           /\ \E e \in ledger' \ ledger :
                 /\ ledger' = ledger \cup {e}
                 /\ e.clientId = req[r].apiClient.clientId
                 /\ e.endpoint = req[r].path
                 /\ e.timestamp = req[r].now

C3_Window ==
    ledgerReachable =>
        \A d \in store, w \in 0..clock :
            Cardinality(InWindow(d.clientId, w)) <= d.rateLimit

C4_Step ==
    \A r \in Reqs :
        LET c == req[r].apiClient.clientId
            limit == req[r].apiClient.rateLimit
            \* the events behind the client's last 429 that are still stored
            those == {e \in ledger : e.clientId = c
                                      /\ e.timestamp >= rejected[c] - Hour}
            \* the oldest of them is more than one hour old (or already swept)
            agedOut == \/ Cardinality(those) < limit
                       \/ \E e \in those : e.timestamp + Hour < clock
        IN  (req[r].pc = "rate_count" /\ req'[r].pc # "rate_count"
               /\ ~req'[r].ledgerRaised /\ rejected[c] # NullDate)
            => IF agedOut
               THEN req'[r].pc = "rate_create" /\ req'[r].res = NoRes
               ELSE Failed(req'[r], 429, "RATE_LIMIT_EXCEEDED")

\* C4: a client rejected with 429 and not admitted since is admitted again by
\* the first request sent once the oldest of the events behind the rejection
\* is more than one hour old, and is rejected until then: the window is the
\* hour that ends at the request, not a calendar hour.
C4_SlidingWindowRecovery == [][C4_Step]_vars

C4_Witness ==
    \E r \in Reqs :
        LET c == req[r].apiClient.clientId
        IN  /\ req[r].pc = "rate_create"
            /\ rejected[c] # NullDate
            /\ \E e \in ledger :
                  /\ e.clientId = c
                  /\ e.timestamp >= rejected[c] - Hour
                  /\ e.timestamp + Hour < req[r].now

\* ------------------------------------------------------------------------ C5
\* C5: a route handler runs for a request only after authenticateApiKey
\* passed every check and called next once with req.apiClient set and
\* rateLimitByApiKey then called next once; a request answered 401, 403, 429
\* or 500 by a gate reaches no handler.
C5_HandlerBehindBothGates ==
    \A r \in Reqs :
        LET q == req[r]
        IN  /\ (q.pc = "handler" \/ q.handled > 0)
               => /\ q.apiClient # NoClient
                  /\ q.authNexts = 1 /\ q.rlNexts = 1 /\ q.handled <= 1
                  /\ ~q.storeRaised
                  /\ q.res \in {NoRes, HandlerRes}
                  /\ \E d \in store :
                        /\ d.key = q.apiKey /\ d.isActive
                        /\ (d.expiresAt = NullDate \/ q.authAt <= d.expiresAt)
                        /\ (d.allowedIPs = {} \/ q.ip \in d.allowedIPs)
                        /\ q.apiClient.clientId = d.clientId
            /\ q.res.status \in {401, 403, 429, 500}
               => q.handled = 0 /\ q.pc = "done" /\ q.sent = 1

C5_Witness ==
    \E r \in Reqs :
        /\ req[r].handled = 1
        /\ req[r].res = HandlerRes
        /\ req[r].apiClient.clientId = "acme_1"
        /\ req[r].ip = "1.2.3.4"

\* ------------------------------------------------------------------------ C6
\* C6: when a call to the credential store rejects during authenticateApiKey
\* the request is answered 500 AUTH_ERROR, no identity is attached, next is
\* not called, and no field of the body is the presented secret or the
\* store's error message.
C6_AuthFailsClosed ==
    \A r \in Reqs :
        LET q == req[r]
        IN  q.storeRaised
            => /\ q.pc = "done"
               /\ q.res.status = 500
               /\ q.res.body.code = "AUTH_ERROR"
               /\ q.apiClient = NoClient
               /\ q.authNexts = 0 /\ q.rlNexts = 0 /\ q.handled = 0
               /\ q.sent = 1
               /\ \A f \in DOMAIN q.res.body \ {"success"} :
                     q.res.body[f] \notin
                         {q.apiKey, StoreErrorDetail, NotFoundDetail,
                          DuplicateKeyDetail}

C6_Witness ==
    \E r \in Reqs, d \in store :
        /\ req[r].storeRaised
        /\ d.key = req[r].apiKey /\ d.isActive /\ d.usageCount = 0
        /\ req[r].res = AuthErrorRes

\* ------------------------------------------------------------------------ C7
\* C7: when a call to the usage ledger rejects during rateLimitByApiKey the
\* request goes to the route handler exactly once, no event is recorded for
\* it, and it gets no 429 or other rejection.
C7_QuotaFailsOpen ==
    \A r \in Reqs :
        LET q == req[r]
        IN  q.ledgerRaised
            => /\ q.rlNexts = 1
               /\ q.pc \in {"handler", "done"}
               /\ q.pc = "handler" => q.res = NoRes /\ q.sent = 0
               /\ q.pc = "done" =>
                     q.res = HandlerRes /\ q.sent = 1 /\ q.handled = 1
               /\ ~\E e \in ledger : e.id = q.id

C7_Witness ==
    \E r \in Reqs :
        /\ req[r].ledgerRaised
        /\ req[r].handled = 1
        /\ Cardinality(InWindow(req[r].apiClient.clientId, req[r].now))
              >= req[r].apiClient.rateLimit

\* ------------------------------------------------------------------------ C8
\* the admin connection a has answered a regenerateApiKey with the new key
Regenerated(a) ==
    adm[a].op = "regenerate" /\ adm[a].pc = "done" /\ adm[a].res.status = 200

Keys(s) == {d.key : d \in s}

C8_Rotate ==
    \A a \in Admins :
        (adm[a].pc = "regenerate_save" /\ adm'[a].res.status = 200)
        => \A old \in store : old._id = adm[a].doc._id =>
              \E new \in store' :
                 /\ new._id = old._id
                 /\ new.key = adm'[a].res.body.data.apiKey
                 /\ new.key # old.key /\ new.key \notin Keys(store)
                 /\ old.key \notin Keys(store')
                 /\ new.usageCount = 0
                 /\ new.lastUsed = NullDate
                 /\ new.clientId = old.clientId
                 /\ new.clientId = adm[a].clientId

C8_OldKeyInvalid ==
    \A r \in Reqs, a \in Admins :
        (LookedUp(r) /\ ~req'[r].storeRaised /\ Regenerated(a)
           /\ req'[r].apiKey = adm[a].oldKey)
        => Failed(req'[r], 401, "INVALID_API_KEY")

C8_NewKeyValid ==
    \A r \in Reqs, a \in Admins :
        (LookedUp(r) /\ ~req'[r].storeRaised /\ Regenerated(a)
           /\ req'[r].apiKey = adm[a].res.body.data.apiKey
           /\ req'[r].apiKey \in Keys(store))
        => /\ ~Failed(req'[r], 401, "INVALID_API_KEY")
           /\ req'[r].pc = "auth_save"
                 => req'[r].keyDoc.clientId = adm[a].clientId

\* C8: when regenerateApiKey completes for an existing client the record
\* holds a fresh key different from the previous one, usageCount = 0,
\* lastUsed = null and the same clientId; a lookup after that with the
\* previous key is 401 INVALID_API_KEY, and the new key resolves to the same
\* clientId.
C8_RotationResets == [][C8_Rotate /\ C8_OldKeyInvalid /\ C8_NewKeyValid]_vars

\* ------------------------------------------------------------------------ C9
\* C9: under every interleaving of createApiKey, regenerateApiKey,
\* updateApiKey and deleteApiKey no two stored records share a clientId and
\* no two share a key.
C9_UniqueClientIdAndKey ==
    \A d, e \in store : d # e => d.clientId # e.clientId /\ d.key # e.key

C9_Witness ==
    \E a, b \in Admins :
        /\ a # b
        /\ adm[a].op = "create" /\ adm[b].op = "create"
        /\ adm[a].clientId = adm[b].clientId
        /\ adm[a].res.status = 201
        /\ adm[b].res = CreateCatch(DuplicateKeyDetail)
        /\ Cardinality(store) = 1

\* ----------------------------------------------------------------------- C10
\* the step in which admin connection a took a createApiKey
CreateCalled(a) ==
    adminOps' = adminOps + 1 /\ adm'[a].id = adminOps + 1
       /\ adm'[a].op = "create"

DuplicateClientRes ==
    [status |-> 400,
     body |-> [success |-> FALSE, error |-> "Client ID already exists"]]

\* the call is refused as a duplicate and leaves nothing behind
RefusedAsDuplicate(a) ==
    /\ adm'[a].pc = "done"
    /\ adm'[a].res = DuplicateClientRes
    /\ adm'[a].doc = NoDoc
    /\ store' = store
    /\ issued' = issued

C10_Original ==
    \A a \in Admins :
        (CreateCalled(a) /\ ~adm'[a].storeRaised
           /\ \E d \in store : d.clientId = adm'[a].clientId)
        => RefusedAsDuplicate(a)

\* C10 as claimed: createApiKey with a clientId that already exists fails
\* with 400 'Client ID already exists', returns no secret and leaves the
\* store as it was.
C10_DuplicateClientAsClaimed == [][C10_Original]_vars

C10_Amended ==
    \A a \in Admins :
        (CreateCalled(a) /\ ~adm'[a].storeRaised
           /\ Truthy(Field(adm'[a].body, "name", Undefined))
           /\ \E d \in store : d.clientId = adm'[a].clientId)
        => RefusedAsDuplicate(a)

\* C10 amended: createApiKey with a name and a clientId that exists when its
\* existence check runs fails with 400 'Client ID already exists', returns no
\* secret and leaves the store as it was.
C10_DuplicateClient == [][C10_Amended]_vars

C10_Witness ==
    \E a \in Admins, d \in store :
        /\ adm[a].op = "create"
        /\ adm[a].res = DuplicateClientRes
        /\ d.clientId = adm[a].clientId
        /\ d.key = generateApiKey("sk", 1)
        /\ issued = 1

\* ----------------------------------------------------------------------- C11
\* the step in which admin connection a took an updateApiKey
UpdateCalled(a) ==
    adminOps' = adminOps + 1 /\ adm'[a].id = adminOps + 1
       /\ adm'[a].op = "update"

C11_Frame ==
    \A a \in Admins : UpdateCalled(a) =>
        /\ Cardinality(store') = Cardinality(store)
        /\ \A d \in store :
              IF d.clientId # adm'[a].clientId
              THEN d \in store'
              ELSE \E e \in store' :
                      /\ e._id = d._id
                      /\ e.key = d.key /\ e.clientId = d.clientId
                      /\ e.usageCount = d.usageCount
                      /\ e.lastUsed = d.lastUsed
                      /\ e.createdAt = d.createdAt
        /\ ( /\ ~adm'[a].storeRaised
             /\ \E d \in store : d.clientId = adm'[a].clientId )
           => adm'[a].res.status = 200

\* C11: updateApiKey changes at most name, isActive, rateLimit, expiresAt,
\* allowedIPs, contactEmail and notes of the record of its clientId: key,
\* clientId, usageCount, lastUsed and createdAt stay as they were, body
\* fields outside the allow-list are ignored and the call still answers 200,
\* and every other record is unchanged.
C11_UpdateFrame == [][C11_Frame]_vars

C11_Witness ==
    \E a \in Admins, d \in store :
        /\ adm[a].op = "update" /\ adm[a].res.status = 200
        /\ "key" \in DOMAIN adm[a].body /\ "usageCount" \in DOMAIN adm[a].body
        /\ d.clientId = adm[a].clientId
        /\ d.rateLimit = 5
        /\ d.key # adm[a].body.key /\ d.usageCount # adm[a].body.usageCount
        /\ d.clientId # adm[a].body.clientId

\* ----------------------------------------------------------------------- C12
\* the step in which admin connection a took the operation op
AdminCalled(a, op) ==
    adminOps' = adminOps + 1 /\ adm'[a].id = adminOps + 1
       /\ adm'[a].op = op

C12_SoftDelete ==
    \A a \in Admins, d \in store :
        ( /\ AdminCalled(a, "delete") /\ ~adm'[a].storeRaised
          /\ adm'[a].res.body.message = "API key deactivated"
          /\ d.clientId = adm'[a].clientId )
        => [d EXCEPT !.isActive = FALSE] \in store'

C12_Listed ==
    \A a \in Admins :
        (AdminCalled(a, "list") /\ ~adm'[a].storeRaised)
        => \A d \in ListQuery(adm'[a].body.active, adm'[a].body.search) :
              ~d.isActive
              => /\ adm'[a].res.status = 200
                 /\ \E i \in DOMAIN adm'[a].res.body.data :
                       /\ adm'[a].res.body.data[i].clientId = d.clientId
                       /\ ~adm'[a].res.body.data[i].isActive

C12_Got ==
    \A a \in Admins, d \in store :
        ( /\ AdminCalled(a, "get") /\ ~adm'[a].storeRaised
          /\ d.clientId = adm'[a].clientId /\ ~d.isActive )
        => /\ adm'[a].res.status = 200
           /\ adm'[a].res.body.data.clientId = d.clientId
           /\ ~adm'[a].res.body.data.isActive

C12_Disabled ==
    \A r \in Reqs, d \in store :
        ( /\ LookedUp(r) /\ ~req'[r].storeRaised
          /\ d.key = req'[r].apiKey /\ ~d.isActive )
        => Failed(req'[r], 403, "DISABLED_API_KEY")

\* C12: a deleteApiKey without hardDelete=true on an existing client leaves
\* its record in the store with isActive = false; after it listApiKeys, and
\* getApiKey for that clientId, answer 200 with that record shown as
\* isActive = false, and a request with its key is answered 403
\* DISABLED_API_KEY.
C12_SoftRevokeListed ==
    [][C12_SoftDelete /\ C12_Listed /\ C12_Got /\ C12_Disabled]_vars

\* ----------------------------------------------------------------------- C13
ClientIds(s) == {d.clientId : d \in s}

C13_HardDelete ==
    \A a \in Admins :
        ( /\ AdminCalled(a, "delete") /\ ~adm'[a].storeRaised
          /\ adm'[a].res.body.message = "API key deleted permanently" )
        => /\ adm'[a].clientId \notin ClientIds(store')
           /\ \A d \in store :
                 d.clientId = adm'[a].clientId => d.key \notin Keys(store')
           /\ ledger' = ledger

\* a clientId enters the store only with the insert of a createApiKey, a key
\* only with that insert or with the save of a regenerateApiKey that found
\* its record still stored
C13_NotUndone ==
    /\ \A c \in ClientIds(store') \ ClientIds(store) :
          \E a \in Admins :
             /\ adm[a].pc = "create_insert" /\ adm[a].clientId = c
             /\ adm'[a].res.status = 201
    /\ \A k \in Keys(store') \ Keys(store) :
          \E a \in Admins :
             /\ adm[a].pc \in {"create_insert", "regenerate_save"}
             /\ adm[a].doc.key = k
             /\ adm'[a].res.status \in {200, 201}
             /\ adm[a].pc = "regenerate_save"
                   => \E d \in store : d._id = adm[a].doc._id

C13_Absent ==
    /\ \A r \in Reqs :
          ( /\ LookedUp(r) /\ ~req'[r].storeRaised
            /\ Truthy(req'[r].apiKey) /\ req'[r].apiKey \notin Keys(store) )
          => Failed(req'[r], 401, "INVALID_API_KEY")
    /\ \A a \in Admins :
          ( /\ \E op \in {"get", "update", "regenerate"} : AdminCalled(a, op)
            /\ ~adm'[a].storeRaised
            /\ adm'[a].clientId \notin ClientIds(store) )
          => /\ adm'[a].pc = "done"
             /\ adm'[a].res = AdminError(404, "API key not found")
             /\ store' = store

\* C13: a deleteApiKey with hardDelete=true removes the record of its
\* clientId and leaves the ledger as it was; while the record is absent a
\* request with its key is answered 401 INVALID_API_KEY and getApiKey,
\* updateApiKey and regenerateApiKey for the clientId answer 404; no
\* operation other than the insert of a later createApiKey brings a record
\* of the clientId back, and no operation brings the key back.
C13_HardRevoke == [][C13_HardDelete /\ C13_NotUndone /\ C13_Absent]_vars

\* the record of acme_1 hard deleted while a regenerateApiKey for it was in
\* flight, and its first key presented afterwards
C13_Witness ==
    /\ adm["a1"].op = "delete"
    /\ adm["a1"].res.body.message = "API key deleted permanently"
    /\ adm["a1"].clientId = "acme_1"
    /\ adm["a2"].op = "regenerate" /\ adm["a2"].clientId = "acme_1"
    /\ adm["a2"].pc = "done" /\ adm["a2"].oldKey = generateApiKey("sk", 1)
    /\ adm["a2"].id < adm["a1"].id
    /\ "acme_1" \notin ClientIds(store)
    /\ \E r \in Reqs :
          /\ Failed(req[r], 401, "INVALID_API_KEY")
          /\ req[r].apiKey = generateApiKey("sk", 1)

\* ----------------------------------------------------------------------- C14
\* the string str contains a key that is stored
Contains(str, sub) ==
    \E i \in 1..(Len(str) - Len(sub) + 1) : SubSeq(str, i, i + Len(sub) - 1) = sub

HoldsStoredKey(str) == \E k \in Keys(store) : Contains(str, k)

\* the strings a record of a response carries
TextFields ==
    {"error", "code", "message", "name", "clientId", "contactEmail", "notes",
     "keyPreview", "key", "apiKey"}

Texts(rec) == {rec[f] : f \in DOMAIN rec \cap TextFields}

\* the strings in the response of an admin request
AdminTexts(q) ==
    IF q.res = NoRes THEN {}
    ELSE IF q.res.status >= 400 THEN Texts(q.res.body)
    ELSE IF q.op = "list"
    THEN UNION {Texts(q.res.body.data[i]) : i \in DOMAIN q.res.body.data}
    ELSE IF q.op = "stats"
    THEN UNION {Texts(q.res.body.data.topClients[i]) :
                   i \in DOMAIN q.res.body.data.topClients}
    ELSE IF q.op = "delete" THEN Texts(q.res.body)
    ELSE Texts(q.res.body) \cup Texts(q.res.body.data)

\* C14: a stored key is in no response of listApiKeys, getApiKey,
\* updateApiKey, deleteApiKey and getStats, in no failure response of
\* createApiKey and regenerateApiKey, in no response of the two gates and not
\* in req.apiClient; a 201 of createApiKey and a 200 of regenerateApiKey carry
\* one, as data.apiKey, and it is the key of the record of their clientId.
C14_KeyShownOnlyWhenIssued ==
    /\ \A a \in Admins :
          LET q == adm[a]
          IN  IF q.op \in {"create", "regenerate"} /\ q.res.status \in {200, 201}
              THEN /\ \A t \in AdminTexts(q) \ {q.res.body.data.apiKey} :
                         ~HoldsStoredKey(t)
                   /\ \A d \in store :
                         d.key = q.res.body.data.apiKey
                            => d.clientId = q.res.body.data.clientId
              ELSE \A t \in AdminTexts(q) : ~HoldsStoredKey(t)
    /\ \A r \in Reqs :
          /\ req[r].res # NoRes =>
                \A t \in Texts(req[r].res.body) : ~HoldsStoredKey(t)
          /\ req[r].apiClient # NoClient =>
                /\ DOMAIN req[r].apiClient = {"clientId", "name", "rateLimit"}
                /\ \A t \in Texts(req[r].apiClient) : ~HoldsStoredKey(t)

C14_Witness ==
    \E d \in store :
        /\ adm["a1"].op = "update" /\ adm["a1"].res.status = 200
        /\ adm["a1"].res.body.data.clientId = d.clientId
        /\ adm["a1"].res.body.data.usageCount = 1
        /\ d.key = generateApiKey("sk", 1)
        /\ \E r \in Reqs : req[r].apiClient.clientId = d.clientId

\* ----------------------------------------------------------------------- C15
C15_Step ==
    \A r \in Reqs :
        ( /\ LookedUp(r) /\ ~req'[r].storeRaised
          /\ Truthy(req'[r].apiKey) /\ req'[r].apiKey \notin Keys(store) )
        => /\ req'[r].pc = "done"
           /\ req'[r].res =
                 [status |-> 401,
                  body |-> [success |-> FALSE, error |-> "Invalid API key",
                            code |-> "INVALID_API_KEY"]]
           /\ req'[r].apiClient = NoClient
           /\ store' = store /\ ledger' = ledger

\* C15: a request whose secret matches no stored key, whether it was never
\* issued, is malformed, belonged to a hard-deleted client or was replaced by
\* a rotation, gets the one response 401 {success: false, error: 'Invalid API
\* key', code: 'INVALID_API_KEY'} and leaves the store as it was.
C15_InvalidKeysAlike == [][C15_Step]_vars

C15_Witness ==
    \E r \in Reqs :
        /\ Failed(req[r], 401, "INVALID_API_KEY")
        /\ adm["a1"].op = "regenerate" /\ adm["a1"].res.status = 200
        /\ adm["a1"].oldKey = req[r].apiKey
        /\ adm["a1"].res.body.data.apiKey \in Keys(store)

\* ----------------------------------------------------------------------- C16
\* the Authorization header h with a 'Bearer ' prefix removed
WithoutBearer(h) ==
    IF h.scheme = Undefined THEN Undefined
    ELSE IF h.scheme = "Bearer " THEN h.cred
    ELSE h.scheme \o h.cred

\* the outcome of the lookup step is that of presenting the secret k
PresentedAs(q, k) ==
    /\ Truthy(k) => q.apiKey = k
    /\ ~Truthy(k) => Failed(q, 401, "MISSING_API_KEY")
    /\ (Truthy(k) /\ ~q.storeRaised /\ k \notin Keys(store))
          => Failed(q, 401, "INVALID_API_KEY")

C16_Original ==
    \A r \in Reqs : LookedUp(r) =>
        LET q == req'[r]
            x == q.headers.xApiKey
        IN  IF x # Undefined
            THEN PresentedAs(q, x)
            ELSE PresentedAs(q, WithoutBearer(q.headers.authorization))

\* C16 as claimed: when the X-API-Key header is present its value is the
\* presented secret and the Authorization header is not consulted; the
\* Authorization header without its 'Bearer ' prefix is used only when
\* X-API-Key is absent; when neither yields a secret the answer is
\* MISSING_API_KEY.
C16_PrecedenceAsClaimed == [][C16_Original]_vars

C16_Amended ==
    \A r \in Reqs : LookedUp(r) =>
        LET q == req'[r]
            x == q.headers.xApiKey
        IN  IF x # Undefined /\ x # ""
            THEN PresentedAs(q, x)
            ELSE PresentedAs(q, WithoutBearer(q.headers.authorization))

\* C16 amended: when the X-API-Key header is present and not empty its value
\* is the presented secret and the Authorization header is not consulted;
\* the Authorization header without its 'Bearer ' prefix is used when
\* X-API-Key is absent or empty; when neither yields a non-empty secret the
\* answer is MISSING_API_KEY.
C16_Precedence == [][C16_Amended]_vars

\* an invalid X-API-Key beside a valid bearer key: INVALID_API_KEY
C16_Witness ==
    \E r \in Reqs :
        /\ Failed(req[r], 401, "INVALID_API_KEY")
        /\ req[r].headers.xApiKey = generateApiKey("sk", 3)
        /\ req[r].headers.authorization.scheme = "Bearer "
        /\ req[r].headers.authorization.cred \in Keys(store)

\* ----------------------------------------------------------------------- C17
\* the answer of the expiry check for a found, active record, where pass(d)
\* says for which records the check is to pass
C17_Step(pass(_)) ==
    \A r \in Reqs, d \in store :
        ( /\ LookedUp(r) /\ ~req'[r].storeRaised
          /\ d.key = req'[r].apiKey /\ d.isActive )
        => IF pass(d)
           THEN ~Failed(req'[r], 403, "EXPIRED_API_KEY")
           ELSE Failed(req'[r], 403, "EXPIRED_API_KEY")

C17_Original ==
    LET InFuture(d) == d.expiresAt = NullDate \/ d.expiresAt > clock
    IN  C17_Step(InFuture)

C17_Amended ==
    LET NotPast(d) == d.expiresAt = NullDate \/ d.expiresAt >= clock
    IN  C17_Step(NotPast)

\* C17 as stated: for a found, active record the expiry check passes exactly
\* when expiresAt is unset or strictly later than the current instant, and
\* answers 403 EXPIRED_API_KEY whenever expiresAt is set and not later.
C17_ExpiryBoundaryAsClaimed == [][C17_Original]_vars

\* C17: for a found, active record authenticateApiKey passes the expiry
\* check exactly when expiresAt is unset or not earlier than the current
\* instant, and answers 403 EXPIRED_API_KEY exactly when expiresAt is set
\* and strictly earlier than the current instant.
C17_ExpiryBoundary == [][C17_Amended]_vars

\* a request authenticated at the very instant its key expires
C17_Witness ==
    \E r \in Reqs :
        /\ req[r].pc = "auth_save"
        /\ req[r].keyDoc.isActive
        /\ req[r].keyDoc.expiresAt = req[r].authAt

\* ----------------------------------------------------------------------- C18
C18_Step ==
    \A r \in Reqs :
        ( /\ req[r].pc = "auth_save" /\ req'[r].pc # "auth_save"
          /\ req'[r].storeRaised )
        => /\ req'[r].pc = "rate_count"
           /\ req'[r].res = NoRes
           /\ req'[r].apiClient =
                 [clientId |-> req[r].keyDoc.clientId,
                  name |-> req[r].keyDoc.name,
                  rateLimit |-> req[r].keyDoc.rateLimit]

\* C18: when every check of authenticateApiKey has passed and the save of
\* usageCount and lastUsed then fails, the identity is attached and the
\* request goes on to rateLimitByApiKey instead of being rejected.
C18_BestEffortTelemetry == [][C18_Step]_vars

\* ----------------------------------------------------------------------- C19
\* the step is the save of a regenerateApiKey that leaves usageCount at 0
C19_RegenerateReset(d) ==
    \E a \in Admins :
        /\ adm[a].op = "regenerate" /\ adm[a].pc = "regenerate_save"
        /\ adm'[a].pc = "done"
        /\ adm[a].doc._id = d._id
        /\ \A e \in store' : e._id = d._id => e.usageCount = 0

C19_Step ==
    \A d \in store : \A e \in store' :
        (e._id = d._id /\ e.usageCount < d.usageCount)
            => C19_RegenerateReset(d)

\* C19: for every record, under every interleaving of authentications and
\* admin updates, the stored usageCount never decreases from one state to
\* the next, except in a step of regenerateApiKey that resets it to 0.
C19_UsageCountMonotone == [][C19_Step]_vars

\* ----------------------------------------------------------------------- C20
AdminOperations ==
    {"create", "list", "get", "update", "delete", "regenerate", "stats"}

\* C20: every operation of the admin router (create, list, get, update,
\* delete, regenerate, stats) is executed only for a request that has passed
\* the JWT check of protect; a request without a valid JWT executes none.
C20_AdminBehindProtect ==
    \A a \in Admins :
        adm[a].op \in AdminOperations => protect(AuthorizationOf(a))

\* ----------------------------------------------------------------------- C21
\* C21: a request for GET /api/v1/health that carries no API key, or an
\* invalid one, is answered with the 'operational' response; it is not
\* rejected by authenticateApiKey and no UsageEvent is recorded for it.
C21_HealthOpen ==
    \A r \in Reqs :
        ( /\ req[r].path = "/health" /\ req[r].pc = "done"
          /\ FindOneByKey(req[r].apiKey) = NoDoc )
        => /\ req[r].res.status = 200
           /\ req[r].res.body.status = "operational"
           /\ \A e \in ledger : e.id # req[r].id

\* ----------------------------------------------------------------------- C22
C22_Step ==
    \A a \in Admins :
        ( /\ adm[a].pc = "create_insert" /\ adm'[a].pc = "done"
          /\ adm'[a].res.status = 201 )
        => \E d \in store' \ store :
              /\ d.clientId = adm[a].body.clientId
              /\ IF "expiresInDays" \in DOMAIN adm[a].body
                 THEN d.expiresAt
                          = d.createdAt + adm[a].body.expiresInDays * Day
                 ELSE d.expiresAt = NullDate

\* C22: createApiKey stores expiresAt = creation time + expiresInDays days
\* whenever the request carries expiresInDays (for every value, 0 included)
\* and leaves expiresAt unset exactly when the request does not carry it.
C22_ExpiresAtFromDays == [][C22_Step]_vars

\* ----------------------------------------------------------------------- C23
\* C23: in every reachable state the rateLimit of every stored record is a
\* positive integer, whatever the payloads of createApiKey and updateApiKey.
C23_RateLimitPositive ==
    \A d \in store : d.rateLimit \in Nat \ {0}

\* ----------------------------------------------------------------------- C24
\* the UsageEvents of client c in the hour that ends at instant t
C24_TrailingHour(c, t) ==
    {e \in ledger : e.clientId = c /\ t - Hour <= e.timestamp /\ e.timestamp <= t}

\* C24: with the ledger reachable, rateLimit unchanged and at most N
\* requests of a client in flight at once, the number of the client's
\* UsageEvents within any trailing hour never exceeds rateLimit + N - 1.
C24_BoundedOvershoot ==
    \A d \in store : \A t \in 0..clock :
        Cardinality(C24_TrailingHour(d.clientId, t))
            <= d.rateLimit + inFlightCap - 1

\* overlapping requests were both admitted at count = rateLimit - 1: the
\* trailing hour holds more events than rateLimit, as many as the bound allows
C24_Witness ==
    \E d \in store :
        /\ inFlightCap > 1
        /\ Cardinality(C24_TrailingHour(d.clientId, clock))
              = d.rateLimit + inFlightCap - 1
        /\ \A r \in Reqs : req[r].pc \in {"idle", "done"}

\* ----------------------------------------------------------------------- C25
\* request r is admitted by rateLimitByApiKey in this step, its event stored
C25_Admitted(r) ==
    /\ req[r].pc = "rate_create" /\ req'[r].pc = "handler"
    /\ ~req'[r].ledgerRaised

\* request r is answered in this step with a failure of authenticateApiKey
\* or with 429
C25_Rejected(r) ==
    /\ req'[r].pc = "done"
    /\ req[r].pc # "done" \/ req'[r].id # req[r].id
    /\ req'[r].res.status \in {401, 403, 429, 500}

C25_Step ==
    /\ \A r \in Reqs : C25_Rejected(r) => ledger' = ledger
    /\ \A r \in Reqs :
          C25_Admitted(r) =>
              /\ Cardinality(ledger' \ ledger) = 1
              /\ ledger' \ ledger =
                     {[id |-> req[r].id,
                       clientId |-> req[r].apiClient.clientId,
                       endpoint |-> req[r].path,
                       timestamp |-> req[r].now]}
    /\ ledger' # ledger => \E r \in Reqs : C25_Admitted(r)
    /\ ledger \subseteq ledger'

\* C25: a UsageEvent is created only when rateLimitByApiKey admits a
\* request: a request answered 429 or rejected by authenticateApiKey leaves
\* the ledger unchanged, each admitted request adds exactly one event (its
\* client, its path, the instant of its count), and stored events are never
\* modified.
C25_EventsOnlyOnAdmission == [][C25_Step]_vars

\* a request was answered 429 after an earlier one was admitted and recorded
C25_Witness ==
    \E r \in Reqs :
        /\ req[r].pc = "done" /\ req[r].res.status = 429
        /\ \E e \in ledger :
              e.clientId = req[r].apiClient.clientId /\ e.id # req[r].id

\* ----------------------------------------------------------------------- C26
C26_FailureCodes ==
    {"MISSING_API_KEY", "INVALID_API_KEY", "DISABLED_API_KEY",
     "EXPIRED_API_KEY", "IP_NOT_ALLOWED"}

\* request r is answered in this step with one of the authentication failures
C26_FailedNow(r) ==
    /\ req'[r].pc = "done"
    /\ req[r].pc # "done" \/ req'[r].id # req[r].id
    /\ req'[r].res.status \in {401, 403}
    /\ req'[r].res.body.code \in C26_FailureCodes

\* record d is in good standing for request r: active, not expired when the
\* request was authenticated, and the address of the request permitted
C26_GoodStanding(d, r) ==
    /\ d.key = req[r].apiKey
    /\ d.isActive
    /\ d.expiresAt = NullDate \/ d.expiresAt >= req[r].authAt
    /\ d.allowedIPs = {} \/ req[r].ip \in d.allowedIPs

C26_Step ==
    /\ \A r \in Reqs : C26_FailedNow(r) => store' = store
    /\ store' # store =>
          \E r \in Reqs : \E d \in store :
              /\ req[r].pc = "auth_save" /\ req'[r].pc = "rate_count"
              /\ C26_GoodStanding(d, r)
              /\ store' = (store \ {d}) \cup
                     {[d EXCEPT !.usageCount = @ + 1,
                                !.lastUsed = req[r].authAt]}

\* C26: an authentication answered MISSING_API_KEY, INVALID_API_KEY,
\* DISABLED_API_KEY, EXPIRED_API_KEY or IP_NOT_ALLOWED leaves the credential
\* store unchanged; usageCount is incremented and lastUsed set only for a
\* request whose key passed every check, and only on its record.
C26_FailedAuthChangesNothing == [][C26_Step]_vars

\* a request was refused for its address after an earlier request with the
\* same key had been authenticated and counted
C26_Witness ==
    \E r \in Reqs : \E d \in store :
        /\ req[r].pc = "done" /\ req[r].res.status = 403
        /\ req[r].res.body.code = "IP_NOT_ALLOWED"
        /\ d.key = req[r].apiKey /\ d.usageCount = 1

\* ----------------------------------------------------------------------- C27
\* the authentications completed with the key of record d: every request
\* presents its own key, and one that is past the save of authenticateApiKey
\* with an identity attached has been authenticated
C27_Pending(d) ==
    {r \in Reqs : req[r].pc = "auth_save" /\ req[r].apiKey = d.key}

C27_Completed(d) ==
    IF \A r \in Reqs : req[r].pc # "idle" => req[r].apiKey = d.key
    THEN started - Cardinality(C27_Pending(d))
    ELSE 0

C27_Inv ==
    \A d \in store :
        /\ d.usageCount <= C27_Completed(d)
        /\ inFlightCap = 1 => d.usageCount = C27_Completed(d)

\* a change of usageCount is the save of one authentication, which writes the
\* value it read plus one
C27_Step ==
    \A d \in store : \A e \in store' :
        (e._id = d._id /\ e.usageCount # d.usageCount)
            => \E r \in Reqs :
                  /\ req[r].pc = "auth_save" /\ req'[r].pc = "rate_count"
                  /\ req[r].apiKey = d.key
                  /\ e.usageCount = req[r].keyDoc.usageCount

\* C27: with no rotation, the usageCount of a record is at most the number
\* of authentications completed with its key and equals it when the
\* authentications do not overlap; it changes only when an authentication
\* saves the value it read plus one, so it falls short only by the lost
\* updates of overlapping authentications.
C27_UnderCountsOnly == []C27_Inv /\ [][C27_Step]_vars

\* two overlapping authentications have completed and only one was counted
C27_Witness ==
    \E d \in store :
        /\ \A r \in Reqs : req[r].pc \in {"idle", "done"}
        /\ C27_Completed(d) = 2
        /\ d.usageCount = 1

\* ----------------------------------------------------------------------- C28
C28_Step ==
    \A d \in store : \A e \in store' :
        e._id = d._id => e.lastUsed >= d.lastUsed

\* C28: under every interleaving of the authentications of a client the
\* lastUsed of its record never moves backwards to the timestamp of an
\* earlier authentication, so that after they have completed it is the
\* timestamp taken by the most recent of them.
C28_LastUsedMostRecent == [][C28_Step]_vars

\* ----------------------------------------------------------------------- C29
\* the decision of rateLimitByApiKey taken in this step by request r depends
\* only on the events of its client with timestamp >= now - 1h: it is a
\* rejection exactly when they number at least rateLimit
C29_Decision ==
    \A r \in Reqs :
        (req[r].pc = "rate_count" /\ req'[r].pc # "rate_count"
            /\ ~req'[r].ledgerRaised)
        => LET visible == {e \in ledger :
                              /\ e.clientId = req[r].apiClient.clientId
                              /\ e.timestamp >= clock - Hour}
           IN  (req'[r].pc = "done" /\ req'[r].res.status = 429)
                   <=> Cardinality(visible) >= req[r].apiClient.rateLimit

\* the events removed in this step are all past the window
C29_Sweep ==
    \A e \in ledger \ ledger' : e.timestamp < clock - Hour

\* C29: the admission decision of rateLimitByApiKey depends only on events
\* with timestamp >= now - 1h, so events past the window that a lagging
\* sweep has left in place never cause a rejection, and the expiry sweep
\* never removes an event that is still inside the window.
C29_WindowAndSweep == [][C29_Decision /\ C29_Sweep]_vars

\* ----------------------------------------------------------------------- C30
\* the UsageEvents recorded for the client of record d
C30_Events(d) == {e \in ledger : e.clientId = d.clientId}

\* a request answered 429 in this step was authenticated before: its record
\* carries the usage update of that authentication, and the rejection leaves
\* the record as it is
C30_Step ==
    \A r \in Reqs :
        ( /\ req[r].pc = "rate_count" /\ req'[r].pc = "done"
          /\ req'[r].res.status = 429 )
        => /\ store' = store
           /\ \E d \in store :
                 /\ d.clientId = req[r].apiClient.clientId
                 /\ d.usageCount >= 1
                 /\ d.lastUsed = req[r].authAt

C30_Inv ==
    \A d \in store : d.usageCount >= Cardinality(C30_Events(d))

\* C30: a request that passes authenticateApiKey and is then answered 429
\* by rateLimitByApiKey has incremented usageCount and set lastUsed, and the
\* rejection takes nothing back: usageCount counts authentications, not
\* admitted requests, and is never below the number of UsageEvents recorded
\* for the client.
C30_NoRollback == []C30_Inv /\ [][C30_Step]_vars

\* a request was answered 429 and usageCount exceeds the number of events
\* ever recorded for the client (no event can have expired yet and the
\* ledger has answered every call)
C30_Witness ==
    \E r \in Reqs : \E d \in store :
        /\ req[r].pc = "done" /\ req[r].res.status = 429
        /\ d.clientId = req[r].apiClient.clientId
        /\ clock < Hour /\ ledgerReachable
        /\ d.usageCount > Cardinality(C30_Events(d))
        /\ d.lastUsed = req[r].authAt

\* ----------------------------------------------------------------------- C31
\* request r completes in this step the save of an authentication that read
\* record d before regenerateApiKey replaced its key
C31_SavesAfterRotation(r, d) ==
    /\ req[r].pc = "auth_save" /\ req'[r].pc = "rate_count"
    /\ d._id = req[r].keyDoc._id
    /\ d.key # req[r].keyDoc.key

C31_Step ==
    \A r \in Reqs : \A d \in store :
        C31_SavesAfterRotation(r, d)
            => \E e \in store' :
                  /\ e._id = d._id
                  /\ e.key = d.key
                  /\ e.usageCount = d.usageCount
                  /\ e.lastUsed = d.lastUsed

\* C31: when an authentication read the record before regenerateApiKey saved
\* and writes its usage update afterwards, the record keeps the new key and
\* the usageCount and lastUsed that the rotation left are not overwritten
\* with values derived from the record as it was before the rotation.
C31_RotationNotUndone == [][C31_Step]_vars

\* ----------------------------------------------------------------------- C32
\* request r ends in this step the save of an authentication whose record
\* has been deleted since it was looked up
C32_SavesAfterDelete(r) ==
    /\ req[r].pc = "auth_save" /\ req'[r].pc # "auth_save"
    /\ \A d \in store : d._id # req[r].keyDoc._id

C32_Step ==
    /\ \A r \in Reqs :
          C32_SavesAfterDelete(r)
              => /\ store' = store
                 /\ \A e \in store' : /\ e._id # req[r].keyDoc._id
                                      /\ e.key # req[r].keyDoc.key
    /\ \A r \in Reqs :
          ( /\ LookedUp(r) /\ Truthy(req'[r].apiKey)
            /\ \A d \in store : d.key # req'[r].apiKey )
          => Failed(req'[r], 401, "INVALID_API_KEY")

C33_AdminStep == adm' # adm

\* the decision rateLimitByApiKey takes in this step for request r is a
\* rejection exactly when the events of its own clientId in the last hour
\* number at least its rateLimit, whatever other clients have recorded and
\* whichever key or record the clientId has by now
C33_Decision ==
    \A r \in Reqs :
        (req[r].pc = "rate_count" /\ req'[r].pc # "rate_count")
        => LET own == {e \in ledger :
                          /\ e.clientId = req[r].apiClient.clientId
                          /\ e.timestamp >= clock - Hour}
           IN  (req'[r].pc = "done" /\ req'[r].res.status = 429)
                   <=> Cardinality(own) >= req[r].apiClient.rateLimit

\* C33: the quota is keyed by clientId only and createApiKey, updateApiKey,
\* regenerateApiKey and deleteApiKey (soft or hard) leave every UsageEvent
\* unchanged: a client's admission depends on its own events alone, so a
\* client at its limit stays rate-limited after its key is rotated and after
\* its record is hard-deleted and created again.
C33_LedgerKeyedByClient ==
    [][(C33_AdminStep => ledger' = ledger) /\ C33_Decision]_vars

\* beta_2, at its limit, was hard-deleted and created again, and the request
\* with the key of the new record is answered 429
C33_Witness ==
    \E r \in Reqs : \E d \in store :
        /\ req[r].pc = "done" /\ req[r].res.status = 429
        /\ d.key = req[r].apiKey /\ d.clientId = "beta_2"
        /\ d._id > 2

\* ----------------------------------------------------------------------- C34
\* the outcomes request q has had from the two gates so far
C34_Outcomes(q) ==
    /\ q.authNexts <= 1 /\ q.rlNexts <= 1 /\ q.sent <= 1 /\ q.handled <= 1
    /\ q.rlNexts <= q.authNexts
    /\ q.handled <= q.rlNexts
    /\ q.pc = "done" =>
          /\ q.sent = 1
          /\ \/ /\ q.res.status \in {401, 403, 500}
                /\ q.authNexts = 0 /\ q.rlNexts = 0 /\ q.handled = 0
             \/ /\ q.res.status = 429
                /\ q.authNexts = 1 /\ q.rlNexts = 0 /\ q.handled = 0
             \/ /\ q.res.status = 200
                /\ q.authNexts = 1 /\ q.rlNexts = 1 /\ q.handled = 1
    /\ q.pc \in {"rate_count", "rate_create"} =>
          q.authNexts = 1 /\ q.rlNexts = 0 /\ q.sent = 0
    /\ q.pc = "handler" => q.authNexts = 1 /\ q.rlNexts = 1 /\ q.sent = 0
    /\ q.pc = "auth_save" => q.authNexts = 0 /\ q.sent = 0

C34_Inv == \A r \in Reqs : C34_Outcomes(req[r])

C34_Answered ==
    \A r \in Reqs :
        (req[r].pc \notin {"idle", "done"}) ~> (req[r].pc = "done")

\* C34: every request gets exactly one outcome from each gate:
\* authenticateApiKey sends one failure response or calls next once,
\* rateLimitByApiKey sends one 429 or calls next once (also when the ledger
\* fails); no request gets a gate failure and a downstream invocation; and,
\* store calls returning or failing, every request is eventually answered.
C34_OneOutcomePerGate == []C34_Inv /\ C34_Answered

\* a request went through the fail-open path of rateLimitByApiKey and was
\* answered by the route handler
C34_Witness ==
    \E r \in Reqs :
        /\ req[r].pc = "done" /\ req[r].ledgerRaised
        /\ req[r].authNexts = 1 /\ req[r].rlNexts = 1 /\ req[r].handled = 1

\* ----------------------------------------------------------------------- C35
\* the decision taken for request r, the first of its client since that
\* client's last 429, with the ledger answering
C35_Retry(r, c) ==
    /\ req[r].pc = "rate_count" /\ req'[r].pc # "rate_count"
    /\ ~req'[r].ledgerRaised
    /\ c = req[r].apiClient.clientId
    /\ req[r].apiClient.rateLimit > 0
    /\ rejected[c] # NullDate

C35_Step ==
    \A r \in Reqs : \A c \in Clients :
        (C35_Retry(r, c) /\ req[r].authAt >= rejected[c] + Hour)
        => req'[r].pc = "rate_create" /\ req'[r].res = NoRes

\* C35: a client with a positive rateLimit answered 429 at time t that sends
\* nothing in between is admitted by a request at any time at or after
\* t + retryAfter (one hour), the ledger being reachable and the key valid.
C35_RetryAfterSufficient == [][C35_Step]_vars

\* the same for a request later than t + retryAfter
C35_RetryAfterStrict ==
    [][\A r \in Reqs : \A c \in Clients :
           (C35_Retry(r, c) /\ req[r].authAt > rejected[c] + Hour)
           => req'[r].pc = "rate_create" /\ req'[r].res = NoRes]_vars

C35_StrictWitness ==
    \E r \in Reqs :
        /\ req[r].pc = "rate_create"
        /\ rejected[req[r].apiClient.clientId] # NullDate
        /\ req[r].authAt > rejected[req[r].apiClient.clientId] + Hour

=============================================================================
